---- MODULE Spec2Model ----
(***************************************************************************)
(* Model of the UVM assembler of practic3/main.py (class UVMAssembler):    *)
(* parse_program builds the intermediate representation, encode_command   *)
(* packs one command into bytes, assemble_to_binary concatenates the      *)
(* encodings and writes the output file.                                  *)
(* Model of the dependency visualizer of practic2/main.py (class           *)
(* DependencyVisualizer): bfs_build_dependency_graph walks the repository  *)
(* from the start package, filtering dependencies by --filter.             *)
(***************************************************************************)
EXTENDS Integers, Sequences, FiniteSets, TLC

VARIABLES
    commands,      \* self.commands: mnemonic -> opcode
    program,       \* program_json['program']: the input records, in order
    intermediate,  \* the list parse_program returned
    cmd_index,     \* index of the command handed to a direct encode_command call (0: none)
    cmd_binary,    \* what that encode_command call returned
    binary_data,   \* what assemble_to_binary returned
    output_file,   \* the file assemble_to_binary writes
    error,         \* the exception that ended the run, if any
    pc,            \* position of the driver
    test_mode,     \* the --test flag of the run
    trace,         \* the lines the run printed
    runs,          \* how many earlier runs this assembler object has served
    \* practic2/main.py, class DependencyVisualizer
    config,                    \* self.config: 'package' and 'filter' of the command line
    repository,                \* the repository read: package -> its dependency list
    dependency_graph,          \* self.dependency_graph
    reverse_dependency_graph,  \* self.reverse_dependency_graph
    visited_packages,          \* self.visited_packages
    cycle_detected,            \* self.cycle_detected
    recursion_depth,           \* self.recursion_depth
    stack,                     \* the active calls of bfs_build_dependency_graph, innermost last
    fetched,                   \* the packages whose dependencies were fetched, in order
    \* find_reverse_dependencies: its argument, its locals and its position
    target_package,
    visited,
    queue,
    reverse_deps,
    frd_at,
    \* homework/main.py, class ConfigTranslator
    declarations,   \* the input text's lines `value -> name`, in order
    arguments,      \* the arguments of the input text's line `name = !{min(...)}`
    constants,      \* self.constants, in insertion order
    output,         \* self.output
    hw_at,          \* position of the translator's run
    \* practic1/tempCodeRunnerFile.py, class ShellEmulator
    script_exists,  \* os.path.exists(script_path)
    lines,          \* the lines of the script file
    line_num,       \* the line the loop of run_script is at
    current_dir,    \* self.current_dir
    executed,       \* the line numbers handed to execute_command, in order
    result          \* what run_script returned, if it has

asmVars == <<commands, program, intermediate, cmd_index, cmd_binary, binary_data,
             output_file, error, pc, test_mode, trace, runs>>

frdVars == <<target_package, visited, queue, reverse_deps, frd_at>>

bfsVars == <<config, repository, dependency_graph, reverse_dependency_graph,
             visited_packages, cycle_detected, recursion_depth, stack, fetched, frdVars>>

hwVars == <<declarations, arguments, constants, output, hw_at>>

shVars == <<script_exists, lines, line_num, current_dir, executed, result>>

vars == <<asmVars, bfsVars, hwVars, shVars>>

-----------------------------------------------------------------------------
(* Bounds of the model *)

\* operand values are 0 and 2^k - 1, 2^k for k up to MaxBit
MaxBit == 15
\* longest program assembled from the record pool
MaxLen == 3
\* most runs one assembler object serves after its first
MaxRuns == 2

-----------------------------------------------------------------------------
(* Python's integer operators on non-negative integers *)

RECURSIVE BitAnd(_, _)
BitAnd(a, b) ==
    IF a = 0 \/ b = 0 THEN 0
    ELSE (a % 2) * (b % 2) + 2 * BitAnd(a \div 2, b \div 2)

RECURSIVE BitOr(_, _)
BitOr(a, b) ==
    IF a = 0 THEN b
    ELSE IF b = 0 THEN a
    ELSE (IF a % 2 = 1 \/ b % 2 = 1 THEN 1 ELSE 0) + 2 * BitOr(a \div 2, b \div 2)

ShiftLeft(a, n) == a * (2 ^ n)

ShiftRight(a, n) == a \div (2 ^ n)

Range(s) == {s[i] : i \in DOMAIN s}

-----------------------------------------------------------------------------
(* Results of a call: a bytes object, None, or a raised exception *)

Bytes(data) == [ret |-> "bytes", data |-> data, exc |-> "none"]

None == [ret |-> "None", data |-> <<>>, exc |-> "none"]

Raise(exc) == [ret |-> "raise", data |-> <<>>, exc |-> exc]

NoError == [exc |-> "none", args |-> <<>>, raised_at |-> 0]

KeyError(key, i) == [exc |-> "KeyError", args |-> <<key>>, raised_at |-> i]

TypeError(i) ==
    [exc |-> "TypeError", args |-> <<"can't concat NoneType to bytes">>, raised_at |-> i]

StructError(i) ==
    [exc |-> "struct.error", args |-> <<"argument out of range">>, raised_at |-> i]

\* pack_I with the byte order of '>I': most significant byte first
pack_I_BigEndian(value) ==
    IF value < 0 \/ value \div 65536 >= 65536 THEN Raise("struct.error")
    ELSE Bytes(<<(value \div 16777216) % 256, (value \div 65536) % 256,
                 (value \div 256) % 256, value % 256>>)

\* struct.pack('<I', value): 4 bytes, least significant first; the format takes
\* 0 <= value < 2^32 (stated on value \div 2^16, which stays within TLC's integers)
pack_I(value) ==
    IF value < 0 \/ value \div 65536 >= 65536 THEN Raise("struct.error")
    ELSE Bytes(<<value % 256, (value \div 256) % 256,
                 (value \div 65536) % 256, (value \div 16777216) % 256>>)

\* struct.pack('BBB', ...) and struct.pack('BBBBB', ...): one byte per argument
pack_B(bytes) ==
    IF \E i \in DOMAIN bytes : bytes[i] < 0 \/ bytes[i] > 255 THEN Raise("struct.error")
    ELSE Bytes(bytes)

-----------------------------------------------------------------------------
(* UVMAssembler *)

InitCommands ==
    [m \in {"load_const", "read_mem", "write_mem", "abs"} |->
        CASE m = "load_const" -> 11
          [] m = "read_mem" -> 24
          [] m = "write_mem" -> 30
          [] m = "abs" -> 7]

EmptyDict == [k \in {} |-> 0]

\* the keys a mnemonic's branch of parse_program reads, in order of evaluation
OperandKeys(cmd_type) ==
    CASE cmd_type = "load_const" -> <<"constant", "address">>
      [] cmd_type = "read_mem" -> <<"result_addr", "source_addr">>
      [] cmd_type = "write_mem" -> <<"offset", "value_addr", "base_addr">>
      [] cmd_type = "abs" -> <<"result_addr", "source_addr">>
      [] OTHER -> <<>>

\* FirstMissing that blames the branch's first key whichever key is absent
FirstMissing_FirstKey(cmd) ==
    LET keys == OperandKeys(cmd.type)
        missing == {k \in DOMAIN keys : keys[k] \notin DOMAIN cmd}
    IN IF missing = {} THEN 0 ELSE 1

\* the first key of the branch that cmd lacks, 0 if none
FirstMissing(cmd) ==
    LET keys == OperandKeys(cmd.type)
        missing == {k \in DOMAIN keys : keys[k] \notin DOMAIN cmd}
    IN IF missing = {} THEN 0
       ELSE CHOOSE k \in missing : \A j \in missing : k <= j

\* BuildFields whose abs branch takes the opcode of read_mem
BuildFields_AbsAsReadMem(cmds, cmd) ==
    CASE cmd.type = "load_const" ->
            [A |-> cmds["load_const"], B |-> cmd.constant, C |-> cmd.address]
      [] cmd.type = "read_mem" ->
            [A |-> cmds["read_mem"], B |-> cmd.result_addr, C |-> cmd.source_addr]
      [] cmd.type = "write_mem" ->
            [A |-> cmds["write_mem"], B |-> cmd.offset, C |-> cmd.value_addr,
             D |-> cmd.base_addr]
      [] cmd.type = "abs" ->
            [A |-> cmds["read_mem"], B |-> cmd.result_addr, C |-> cmd.source_addr]
      [] OTHER -> EmptyDict

\* the fields dict built for one record (all its keys present)
BuildFields(cmds, cmd) ==
    CASE cmd.type = "load_const" ->
            [A |-> cmds["load_const"], B |-> cmd.constant, C |-> cmd.address]
      [] cmd.type = "read_mem" ->
            [A |-> cmds["read_mem"], B |-> cmd.result_addr, C |-> cmd.source_addr]
      [] cmd.type = "write_mem" ->
            [A |-> cmds["write_mem"], B |-> cmd.offset, C |-> cmd.value_addr,
             D |-> cmd.base_addr]
      [] cmd.type = "abs" ->
            [A |-> cmds["abs"], B |-> cmd.result_addr, C |-> cmd.source_addr]
      [] OTHER -> EmptyDict

\* parse_loop that leaves out a record whose mnemonic the registry does not know
RECURSIVE parse_loop_SkipUnknown(_, _, _, _)
parse_loop_SkipUnknown(cmds, prog, i, acc) ==
    IF i > Len(prog) THEN [ok |-> TRUE, intermediate |-> acc, error |-> NoError]
    ELSE LET cmd == prog[i]
             k == FirstMissing(cmd)
         IN IF k # 0
            THEN [ok |-> FALSE, intermediate |-> <<>>,
                  error |-> KeyError(OperandKeys(cmd.type)[k], i)]
            ELSE IF cmd.type \notin DOMAIN cmds
            THEN parse_loop_SkipUnknown(cmds, prog, i + 1, acc)
            ELSE parse_loop_SkipUnknown(cmds, prog, i + 1,
                                        Append(acc, [type |-> cmd.type,
                                                     fields |-> BuildFields(cmds, cmd)]))

RECURSIVE parse_loop(_, _, _, _)
parse_loop(cmds, prog, i, acc) ==
    IF i > Len(prog) THEN [ok |-> TRUE, intermediate |-> acc, error |-> NoError]
    ELSE LET cmd == prog[i]
             k == FirstMissing(cmd)
         IN IF k # 0
            THEN [ok |-> FALSE, intermediate |-> <<>>,
                  error |-> KeyError(OperandKeys(cmd.type)[k], i)]
            ELSE parse_loop(cmds, prog, i + 1,
                            Append(acc, [type |-> cmd.type,
                                         fields |-> BuildFields(cmds, cmd)]))

parse_program(cmds, prog) == parse_loop(cmds, prog, 1, <<>>)

\* EncodeLoadConst with the address masked to 8 bits instead of 7
EncodeLoadConst_WideAddress(fields) ==
    LET A == fields.A
        B == fields.B
        C == fields.C
        value == BitOr(BitOr(BitAnd(A, 63), ShiftLeft(BitAnd(B, 16383), 6)),
                       ShiftLeft(BitAnd(C, 255), 20))
    IN pack_I(value)

\* EncodeLoadConst with the address field shifted to bit 21 instead of bit 20
EncodeLoadConst_Shift21(fields) ==
    LET A == fields.A
        B == fields.B
        C == fields.C
        value == BitOr(BitOr(BitAnd(A, 63), ShiftLeft(BitAnd(B, 16383), 6)),
                       ShiftLeft(BitAnd(C, 127), 21))
    IN pack_I(value)

EncodeLoadConst(fields) ==
    LET A == fields.A
        B == fields.B
        C == fields.C
        value == BitOr(BitOr(BitAnd(A, 63), ShiftLeft(BitAnd(B, 16383), 6)),
                       ShiftLeft(BitAnd(C, 127), 20))
    IN pack_I(value)

\* EncodeThreeByte with B shifted into the second byte unmasked
EncodeThreeByte_UnmaskedB(fields) ==
    LET A == fields.A
        B == fields.B
        C == fields.C
        byte1 == BitAnd(A, 63)
        byte2 == BitOr(ShiftLeft(B, 1), BitAnd(ShiftRight(C, 6), 1))
        byte3 == BitAnd(C, 63)
    IN pack_B(<<byte1, byte2, byte3>>)

\* EncodeThreeByte with the low part of C masked to 8 bits instead of 6
EncodeThreeByte_WideMask(fields) ==
    LET A == fields.A
        B == fields.B
        C == fields.C
        byte1 == BitAnd(A, 63)
        byte2 == BitOr(ShiftLeft(BitAnd(B, 127), 1), BitAnd(ShiftRight(C, 6), 1))
        byte3 == BitAnd(C, 255)
    IN pack_B(<<byte1, byte2, byte3>>)

\* EncodeThreeByte with B masked to 6 bits instead of 7
EncodeThreeByte_NarrowMask(fields) ==
    LET A == fields.A
        B == fields.B
        C == fields.C
        byte1 == BitAnd(A, 63)
        byte2 == BitOr(ShiftLeft(BitAnd(B, 63), 1), BitAnd(ShiftRight(C, 6), 1))
        byte3 == BitAnd(C, 63)
    IN pack_B(<<byte1, byte2, byte3>>)

\* EncodeThreeByte with the high bit of C taken from bit 7 instead of bit 6
EncodeThreeByte_Bit7(fields) ==
    LET A == fields.A
        B == fields.B
        C == fields.C
        byte1 == BitAnd(A, 63)
        byte2 == BitOr(ShiftLeft(BitAnd(B, 127), 1), BitAnd(ShiftRight(C, 7), 1))
        byte3 == BitAnd(C, 63)
    IN pack_B(<<byte1, byte2, byte3>>)

EncodeThreeByte(fields) ==
    LET A == fields.A
        B == fields.B
        C == fields.C
        byte1 == BitAnd(A, 63)
        byte2 == BitOr(ShiftLeft(BitAnd(B, 127), 1), BitAnd(ShiftRight(C, 6), 1))
        byte3 == BitAnd(C, 63)
    IN pack_B(<<byte1, byte2, byte3>>)

\* EncodeWriteMem with the two offset bytes swapped
EncodeWriteMem_Swapped(fields) ==
    LET A == fields.A
        B == fields.B
        C == fields.C
        D == fields.D
        byte1 == BitAnd(A, 63)
        byte2 == BitAnd(ShiftRight(B, 8), 63)
        byte3 == BitAnd(B, 255)
        byte4 == BitOr(ShiftLeft(BitAnd(C, 127), 1), BitAnd(ShiftRight(D, 6), 1))
        byte5 == BitAnd(D, 63)
    IN pack_B(<<byte1, byte3, byte2, byte4, byte5>>)

\* EncodeWriteMem with the low offset byte left unmasked
EncodeWriteMem_NoMask(fields) ==
    LET A == fields.A
        B == fields.B
        C == fields.C
        D == fields.D
        byte1 == BitAnd(A, 63)
        byte2 == BitAnd(ShiftRight(B, 8), 63)
        byte3 == B
        byte4 == BitOr(ShiftLeft(BitAnd(C, 127), 1), BitAnd(ShiftRight(D, 6), 1))
        byte5 == BitAnd(D, 63)
    IN pack_B(<<byte1, byte2, byte3, byte4, byte5>>)

EncodeWriteMem(fields) ==
    LET A == fields.A
        B == fields.B
        C == fields.C
        D == fields.D
        byte1 == BitAnd(A, 63)
        byte2 == BitAnd(ShiftRight(B, 8), 63)
        byte3 == BitAnd(B, 255)
        byte4 == BitOr(ShiftLeft(BitAnd(C, 127), 1), BitAnd(ShiftRight(D, 6), 1))
        byte5 == BitAnd(D, 63)
    IN pack_B(<<byte1, byte2, byte3, byte4, byte5>>)

encode_command(cmd) ==
    IF cmd.type = "load_const" THEN EncodeLoadConst(cmd.fields)
    ELSE IF cmd.type = "read_mem" \/ cmd.type = "abs" THEN EncodeThreeByte(cmd.fields)
    ELSE IF cmd.type = "write_mem" THEN EncodeWriteMem(cmd.fields)
    ELSE None

\* assemble_loop that puts each command's bytes in front of the buffer
RECURSIVE assemble_loop_Prepend(_, _, _)
assemble_loop_Prepend(inter, i, data) ==
    IF i > Len(inter) THEN [ok |-> TRUE, data |-> data, error |-> NoError]
    ELSE LET r == encode_command(inter[i])
         IN IF r.ret = "bytes" THEN assemble_loop_Prepend(inter, i + 1, r.data \o data)
            ELSE IF r.ret = "None" THEN [ok |-> FALSE, data |-> data, error |-> TypeError(i)]
            ELSE [ok |-> FALSE, data |-> data, error |-> StructError(i)]

\* assemble_loop that skips a command encode_command returns None for
RECURSIVE assemble_loop_SkipNone(_, _, _)
assemble_loop_SkipNone(inter, i, data) ==
    IF i > Len(inter) THEN [ok |-> TRUE, data |-> data, error |-> NoError]
    ELSE LET r == encode_command(inter[i])
         IN IF r.ret = "bytes" THEN assemble_loop_SkipNone(inter, i + 1, data \o r.data)
            ELSE IF r.ret = "None" THEN assemble_loop_SkipNone(inter, i + 1, data)
            ELSE [ok |-> FALSE, data |-> data, error |-> StructError(i)]

RECURSIVE assemble_loop(_, _, _)
assemble_loop(inter, i, data) ==
    IF i > Len(inter) THEN [ok |-> TRUE, data |-> data, error |-> NoError]
    ELSE LET r == encode_command(inter[i])
         IN IF r.ret = "bytes" THEN assemble_loop(inter, i + 1, data \o r.data)
            ELSE IF r.ret = "None" THEN [ok |-> FALSE, data |-> data, error |-> TypeError(i)]
            ELSE [ok |-> FALSE, data |-> data, error |-> StructError(i)]

assemble_to_binary(inter) == assemble_loop(inter, 1, <<>>)

NoFile == [exists |-> FALSE, data |-> <<>>]

-----------------------------------------------------------------------------
(* Input programs *)

OperandValues == {0} \cup {2 ^ k - 1 : k \in 1..MaxBit} \cup {2 ^ k : k \in 1..MaxBit}

LoadConst(c, a) == [type |-> "load_const", constant |-> c, address |-> a]

ReadMem(b, c) == [type |-> "read_mem", result_addr |-> b, source_addr |-> c]

WriteMem(o, v, b) == [type |-> "write_mem", offset |-> o, value_addr |-> v, base_addr |-> b]

Abs(b, c) == [type |-> "abs", result_addr |-> b, source_addr |-> c]

\* a single record of each mnemonic, over all operand values
SingleRecords ==
    {LoadConst(c, a) : c \in OperandValues, a \in OperandValues}
    \cup {ReadMem(b, c) : b \in OperandValues, c \in OperandValues}
    \cup {Abs(b, c) : b \in OperandValues, c \in OperandValues}
    \cup {WriteMem(o, v, b) : o \in OperandValues, v \in OperandValues, b \in OperandValues}

\* the program of create_test_program
TestProgram == <<LoadConst(693, 81), ReadMem(94, 29), WriteMem(77, 5, 85), Abs(86, 26)>>

\* records with an unknown mnemonic or a missing operand
MalformedRecords ==
    {[type |-> "jmp", address |-> 5],
     [type |-> "load_const", address |-> 81],
     [type |-> "write_mem", offset |-> 77, value_addr |-> 5]}

\* the pool the longer programs are drawn from
PoolRecords ==
    Range(TestProgram)
    \cup {LoadConst(16384 + 693, 128 + 81), WriteMem(16383, 127, 127)}
    \cup {[type |-> "abs", result_addr |-> 86, source_addr |-> 26, A |-> 63]}
    \cup MalformedRecords

Programs ==
    {<<r>> : r \in SingleRecords}
    \cup UNION {[1..n -> PoolRecords] : n \in 0..MaxLen}
    \cup {TestProgram}

-----------------------------------------------------------------------------------------------------------------------------------------------------
(* The diagnostic output *)

FieldLines(fields) ==
    LET names == SelectSeq(<<"A", "B", "C", "D">>, LAMBDA n : n \in DOMAIN fields)
    IN [k \in DOMAIN names |-> [line |-> "field", name |-> names[k], value |-> fields[names[k]]]]

RECURSIVE PrintCommands(_, _)
PrintCommands(inter, i) ==
    IF i > Len(inter) THEN <<>>
    ELSE <<[line |-> "command", index |-> i - 1, type |-> inter[i].type]>>
         \o FieldLines(inter[i].fields)
         \o <<[line |-> "blank"]>>
         \o PrintCommands(inter, i + 1)

\* the lines print_intermediate prints
print_intermediate(inter) == <<[line |-> "header"]>> \o PrintCommands(inter, 1)

\* the lines assemble_to_binary prints in test mode for its first n commands
assemble_trace(inter, n) ==
    [i \in 1..n |-> [line |-> "bytes", type |-> inter[i].type,
                     data |-> encode_command(inter[i]).data]]

-----------------------------------------------------------------------------
(* The driver: assemble_to_intermediate then assemble_to_binary (__main__), *)
(* or parse_program then encode_command on one command (test_specification) *)

\* no ConfigTranslator exists in the process
NoTranslator ==
    /\ declarations = <<>>
    /\ arguments = <<>>
    /\ constants = <<>>
    /\ output = EmptyDict
    /\ hw_at = "none"

\* no ShellEmulator exists in the process
NoShell ==
    /\ script_exists = FALSE
    /\ lines = <<>>
    /\ line_num = 0
    /\ current_dir = <<>>
    /\ executed = <<>>
    /\ result = "none"

\* find_reverse_dependencies has not been called
NoReverseSearch ==
    /\ target_package = <<>>
    /\ visited = {}
    /\ queue = <<>>
    /\ reverse_deps = <<>>
    /\ frd_at = "idle"

\* a process that runs the assembler constructs no DependencyVisualizer
NoVisualizer ==
    /\ NoTranslator
    /\ NoShell
    /\ NoReverseSearch
    /\ config = EmptyDict
    /\ repository = EmptyDict
    /\ dependency_graph = EmptyDict
    /\ reverse_dependency_graph = EmptyDict
    /\ visited_packages = {}
    /\ cycle_detected = FALSE
    /\ recursion_depth = 0
    /\ stack = <<>>
    /\ fetched = <<>>

Init ==
    /\ NoVisualizer
    /\ commands = InitCommands
    /\ program \in Programs
    /\ intermediate = <<>>
    /\ cmd_index = 0
    /\ cmd_binary = None
    /\ binary_data = <<>>
    /\ output_file = NoFile
    /\ error = NoError
    /\ pc = "loaded"
    /\ test_mode = FALSE
    /\ trace = <<>>
    /\ runs = 0

\* ParseProgram on a registry that learns every mnemonic it looks at
ParseProgram_Registers ==
    /\ UNCHANGED <<bfsVars, hwVars, shVars>>
    /\ pc = "loaded"
    /\ LET r == parse_program(commands, program)
       IN IF r.ok
          THEN /\ intermediate' = r.intermediate
               /\ pc' = "parsed"
               /\ error' = error
               /\ trace' = IF test_mode THEN trace \o print_intermediate(r.intermediate)
                           ELSE trace
          ELSE /\ intermediate' = intermediate
               /\ pc' = "failed"
               /\ error' = r.error
               /\ trace' = trace
    /\ commands' = [m \in DOMAIN commands \cup {program[i].type : i \in DOMAIN program} |->
                        IF m \in DOMAIN commands THEN commands[m] ELSE 0]
    /\ UNCHANGED <<program, cmd_index, cmd_binary, binary_data, output_file,
                   test_mode, runs>>

ParseProgram ==
    /\ UNCHANGED <<bfsVars, hwVars, shVars>>
    /\ pc = "loaded"
    /\ LET r == parse_program(commands, program)
       IN IF r.ok
          THEN /\ intermediate' = r.intermediate
               /\ pc' = "parsed"
               /\ error' = error
               /\ trace' = IF test_mode THEN trace \o print_intermediate(r.intermediate)
                           ELSE trace
          ELSE /\ intermediate' = intermediate
               /\ pc' = "failed"
               /\ error' = r.error
               /\ trace' = trace
    /\ UNCHANGED <<commands, program, cmd_index, cmd_binary, binary_data, output_file,
                   test_mode, runs>>

\* PrintIntermediate that empties each command's field map as it prints it
PrintIntermediate_Consumes ==
    /\ UNCHANGED <<bfsVars, hwVars, shVars>>
    /\ pc = "parsed"
    /\ trace' = trace \o print_intermediate(intermediate)
    /\ intermediate' = [i \in DOMAIN intermediate |->
                            [type |-> intermediate[i].type, fields |-> EmptyDict]]
    /\ pc' = "printed"
    /\ UNCHANGED <<commands, program, cmd_index, cmd_binary, binary_data,
                   output_file, error, test_mode, runs>>

PrintIntermediate ==
    /\ UNCHANGED <<bfsVars, hwVars, shVars>>
    /\ pc = "parsed"
    /\ trace' = trace \o print_intermediate(intermediate)
    /\ pc' = "printed"
    /\ UNCHANGED <<commands, program, intermediate, cmd_index, cmd_binary, binary_data,
                   output_file, error, test_mode, runs>>

\* EncodeCommand that leaves the opcode it packed, plus one, in the registry
EncodeCommand_BumpsOpcode ==
    /\ UNCHANGED <<bfsVars, hwVars, shVars>>
    /\ pc \in {"parsed", "printed"}
    /\ \E i \in DOMAIN intermediate :
          LET r == encode_command(intermediate[i])
          IN /\ cmd_index' = i
             /\ commands' = [m \in DOMAIN commands |->
                                IF m = intermediate[i].type THEN (commands[m] + 1) % 64
                                ELSE commands[m]]
             /\ IF r.ret = "raise"
                THEN /\ cmd_binary' = cmd_binary
                     /\ error' = StructError(i)
                     /\ pc' = "failed"
                ELSE /\ cmd_binary' = r
                     /\ error' = error
                     /\ pc' = "encoded"
    /\ UNCHANGED <<program, intermediate, binary_data, output_file,
                   test_mode, trace, runs>>

EncodeCommand ==
    /\ UNCHANGED <<bfsVars, hwVars, shVars>>
    /\ pc \in {"parsed", "printed"}
    /\ \E i \in DOMAIN intermediate :
          LET r == encode_command(intermediate[i])
          IN /\ cmd_index' = i
             /\ IF r.ret = "raise"
                THEN /\ cmd_binary' = cmd_binary
                     /\ error' = StructError(i)
                     /\ pc' = "failed"
                ELSE /\ cmd_binary' = r
                     /\ error' = error
                     /\ pc' = "encoded"
    /\ UNCHANGED <<commands, program, intermediate, binary_data, output_file,
                   test_mode, trace, runs>>

\* AssembleToBinary with the append to binary_data inside the test-mode branch
AssembleToBinary_AppendInTestMode ==
    /\ UNCHANGED <<bfsVars, hwVars, shVars>>
    /\ pc \in {"parsed", "printed"}
    /\ LET r == assemble_to_binary(intermediate)
       IN IF r.ok
          THEN /\ binary_data' = IF test_mode THEN r.data ELSE <<>>
               /\ output_file' = [exists |-> TRUE, data |-> binary_data']
               /\ pc' = "done"
               /\ error' = error
               /\ trace' = IF test_mode
                           THEN trace \o assemble_trace(intermediate, Len(intermediate))
                           ELSE trace
          ELSE /\ binary_data' = binary_data
               /\ output_file' = output_file
               /\ pc' = "failed"
               /\ error' = r.error
               /\ trace' = IF test_mode
                           THEN trace \o assemble_trace(intermediate, r.error.raised_at - 1)
                           ELSE trace
    /\ UNCHANGED <<commands, program, intermediate, cmd_index, cmd_binary,
                   test_mode, runs>>

AssembleToBinary ==
    /\ UNCHANGED <<bfsVars, hwVars, shVars>>
    /\ pc \in {"parsed", "printed"}
    /\ LET r == assemble_to_binary(intermediate)
       IN IF r.ok
          THEN /\ binary_data' = r.data
               /\ output_file' = [exists |-> TRUE, data |-> r.data]
               /\ pc' = "done"
               /\ error' = error
               /\ trace' = IF test_mode
                           THEN trace \o assemble_trace(intermediate, Len(intermediate))
                           ELSE trace
          ELSE /\ binary_data' = binary_data
               /\ output_file' = output_file
               /\ pc' = "failed"
               /\ error' = r.error
               /\ trace' = IF test_mode
                           THEN trace \o assemble_trace(intermediate, r.error.raised_at - 1)
                           ELSE trace
    /\ UNCHANGED <<commands, program, intermediate, cmd_index, cmd_binary,
                   test_mode, runs>>

\* one run without --test: parse, then either encode one command or assemble
Next == ParseProgram \/ EncodeCommand \/ AssembleToBinary

Spec == Init /\ [][Next]_vars

-----------------------------------------------------------------------------
(* A session: one assembler object serving several runs, with and without    *)
(* --test, as test_specification does with its four programs                 *)

\* the programs of a session: the test program, each pool record on its own, the
\* empty program, and a record of the test program followed by a malformed one
SessionPrograms ==
    {TestProgram, <<>>}
    \cup {<<r>> : r \in PoolRecords}
    \cup {<<r, m>> : r \in Range(TestProgram), m \in MalformedRecords}

InitSession ==
    /\ NoVisualizer
    /\ commands = InitCommands
    /\ program \in SessionPrograms
    /\ intermediate = <<>>
    /\ cmd_index = 0
    /\ cmd_binary = None
    /\ binary_data = <<>>
    /\ output_file = NoFile
    /\ error = NoError
    /\ pc = "loaded"
    /\ test_mode \in BOOLEAN
    /\ trace = <<>>
    /\ runs = 0

\* the same assembler object is handed the next program; the run's locals, its
\* output and its output file start afresh
Reload ==
    /\ UNCHANGED <<bfsVars, hwVars, shVars>>
    /\ pc \in {"encoded", "done", "failed"}
    /\ runs < MaxRuns
    /\ runs' = runs + 1
    /\ program' \in SessionPrograms
    /\ test_mode' \in BOOLEAN
    /\ intermediate' = <<>>
    /\ cmd_index' = 0
    /\ cmd_binary' = None
    /\ binary_data' = <<>>
    /\ output_file' = NoFile
    /\ error' = NoError
    /\ pc' = "loaded"
    /\ trace' = <<>>
    /\ UNCHANGED commands

NextSession ==
    ParseProgram \/ PrintIntermediate \/ EncodeCommand \/ AssembleToBinary \/ Reload

SpecSession == InitSession /\ [][NextSession]_vars

-----------------------------------------------------------------------------
(* practic2/main.py: should_filter_package and bfs_build_dependency_graph    *)

\* self.max_recursion_depth
max_recursion_depth == 20

\* most dependency entries a generated repository holds
MaxEdges == 3

\* a package name is a string, kept as the sequence of its characters
Packages == {<<"a">>, <<"a", "b">>, <<"b">>}

\* the values of --filter; the empty string is its default
Filters == {<<>>, <<"a">>, <<"b">>}

\* Python's `sub in s` on strings
Contains(sub, s) ==
    \E i \in 0..(Len(s) - Len(sub)) : SubSeq(s, i + 1, i + Len(sub)) = sub

\* should_filter_package that tests equality instead of containment
should_filter_package_Equal(cfg, package_name) ==
    IF cfg.filter = <<>> THEN FALSE ELSE cfg.filter = package_name

should_filter_package(cfg, package_name) ==
    IF cfg.filter = <<>> THEN FALSE ELSE Contains(cfg.filter, package_name)

\* the dependencies fetched for a package: test_graph.get(start_package, []), or
\* what get_direct_dependencies returns (the empty list for an unknown package)
Dependencies(repo, package) ==
    IF package \in DOMAIN repo THEN repo[package] ELSE <<>>

\* the loop over dependencies that keeps those should_filter_package lets through
FilterDependencies(cfg, dependencies) ==
    SelectSeq(dependencies, LAMBDA dep : ~should_filter_package(cfg, dep))

\* dict[key] = value
SetItem(dict, key, value) ==
    [k \in DOMAIN dict \cup {key} |-> IF k = key THEN value ELSE dict[k]]

\* AddReverse that records the package under its first dependency only
RECURSIVE AddReverse_FirstOnly(_, _, _, _)
AddReverse_FirstOnly(reverse, filtered_dependencies, package, i) ==
    IF i > Len(filtered_dependencies) \/ i > 1 THEN reverse
    ELSE LET dep == filtered_dependencies[i]
             old == IF dep \in DOMAIN reverse THEN reverse[dep] ELSE <<>>
         IN  AddReverse_FirstOnly(SetItem(reverse, dep, Append(old, package)),
                                  filtered_dependencies, package, i + 1)

\* for dep in filtered_dependencies[i:]: reverse[dep].append(package), on a defaultdict(list)
RECURSIVE AddReverse(_, _, _, _)
AddReverse(reverse, filtered_dependencies, package, i) ==
    IF i > Len(filtered_dependencies) THEN reverse
    ELSE LET dep == filtered_dependencies[i]
             old == IF dep \in DOMAIN reverse THEN reverse[dep] ELSE <<>>
         IN  AddReverse(SetItem(reverse, dep, Append(old, package)),
                        filtered_dependencies, package, i + 1)

\* check 1 that takes every package met before for a cycle
InPath_OrVisited(start_package, path) ==
    start_package \in Range(path) \cup visited_packages

\* check 1: start_package in path
InPath(start_package, path) == start_package \in Range(path)

\* check 2 that lets one more level through
TooDeep_OneMore(depth) == depth > max_recursion_depth + 1

\* check 2 after the increment: self.recursion_depth > self.max_recursion_depth
TooDeep(depth) == depth > max_recursion_depth

\* check 3 that lets every package through
IsVisited_Never(start_package, packages) == FALSE

\* check 3: start_package in self.visited_packages
IsVisited(start_package, packages) == start_package \in packages

\* a call of bfs_build_dependency_graph that has not run its first statement
Call(start_package, path) ==
    [start_package |-> start_package, path |-> path, at |-> "enter",
     filtered_dependencies |-> <<>>, next |-> 0]

Top == stack[Len(stack)]

Pop == SubSeq(stack, 1, Len(stack) - 1)

-----------------------------------------------------------------------------
(* Repositories *)

\* the dependency lists of at most n entries
Lists(n) == UNION {[1..k -> Packages] : k \in 1..n}

RECURSIVE Entries(_, _)
Entries(repo, keys) ==
    IF keys = {} THEN 0
    ELSE LET k == CHOOSE x \in keys : TRUE
         IN  Len(repo[k]) + Entries(repo, keys \ {k})

\* every repository over Packages with at most MaxEdges dependency entries; a
\* package without a line, or with an empty one, has no entry
Repositories ==
    {repo \in UNION {[D -> Lists(MaxEdges - Cardinality(D) + 1)] : D \in SUBSET Packages} :
        Entries(repo, DOMAIN repo) <= MaxEdges}

\* a chain c -> cc -> ccc -> ... one package longer than the recursion limit
ChainPackage(k) == [i \in 1..k |-> "c"]

ChainRepository ==
    [p \in {ChainPackage(k) : k \in 1..max_recursion_depth} |-> <<ChainPackage(Len(p) + 1)>>]

\* a ring c -> cc -> ... -> c of as many packages as the recursion limit allows
RingRepository ==
    [p \in {ChainPackage(k) : k \in 1..max_recursion_depth} |->
        <<ChainPackage((Len(p) % max_recursion_depth) + 1)>>]

\* no UVMAssembler exists in a process that runs the visualizer
NoAssembler ==
    /\ commands = EmptyDict
    /\ program = <<>>
    /\ intermediate = <<>>
    /\ cmd_index = 0
    /\ cmd_binary = None
    /\ binary_data = <<>>
    /\ output_file = NoFile
    /\ error = NoError
    /\ pc = "none"
    /\ test_mode = FALSE
    /\ trace = <<>>
    /\ runs = 0

\* a fresh DependencyVisualizer whose run has just called
\* bfs_build_dependency_graph(args.package, args.version)
InitBfs ==
    /\ NoAssembler
    /\ NoTranslator
    /\ NoShell
    /\ NoReverseSearch
    /\ \/ /\ repository \in Repositories
          /\ config \in [package : Packages, filter : Filters]
       \/ /\ repository \in {ChainRepository, RingRepository}
          /\ config \in [package : {ChainPackage(1)}, filter : Filters]
    /\ dependency_graph = EmptyDict
    /\ reverse_dependency_graph = EmptyDict
    /\ visited_packages = {}
    /\ cycle_detected = FALSE
    /\ recursion_depth = 0
    /\ stack = <<Call(config.package, <<>>)>>
    /\ fetched = <<>>

\* check 1 fires: the package is on the path of the active calls
BfsCycle ==
    /\ UNCHANGED <<asmVars, frdVars, hwVars, shVars>>
    /\ stack # <<>>
    /\ Top.at = "enter"
    /\ InPath(Top.start_package, Top.path)
    /\ cycle_detected' = TRUE
    /\ stack' = Pop
    /\ UNCHANGED <<config, repository, dependency_graph, reverse_dependency_graph,
                   visited_packages, recursion_depth, fetched>>

\* check 2 fires: the depth is incremented, found too large, and decremented
BfsDepthLimit ==
    /\ UNCHANGED <<asmVars, frdVars, hwVars, shVars>>
    /\ stack # <<>>
    /\ Top.at = "enter"
    /\ ~InPath(Top.start_package, Top.path)
    /\ TooDeep(recursion_depth + 1)
    /\ stack' = Pop
    /\ UNCHANGED <<config, repository, dependency_graph, reverse_dependency_graph,
                   visited_packages, cycle_detected, recursion_depth, fetched>>

\* check 3 fires: the package was expanded before
BfsVisited ==
    /\ UNCHANGED <<asmVars, frdVars, hwVars, shVars>>
    /\ stack # <<>>
    /\ Top.at = "enter"
    /\ ~InPath(Top.start_package, Top.path)
    /\ ~TooDeep(recursion_depth + 1)
    /\ IsVisited(Top.start_package, visited_packages)
    /\ stack' = Pop
    /\ UNCHANGED <<config, repository, dependency_graph, reverse_dependency_graph,
                   visited_packages, cycle_detected, recursion_depth, fetched>>

\* BfsExpand that stores the dependencies as fetched
BfsExpand_Unfiltered ==
    /\ UNCHANGED <<asmVars, frdVars, hwVars, shVars>>
    /\ stack # <<>>
    /\ Top.at = "enter"
    /\ ~InPath(Top.start_package, Top.path)
    /\ ~TooDeep(recursion_depth + 1)
    /\ ~IsVisited(Top.start_package, visited_packages)
    /\ LET start_package == Top.start_package
           dependencies == Dependencies(repository, start_package)
       IN  /\ recursion_depth' = recursion_depth + 1
           /\ visited_packages' = visited_packages \cup {start_package}
           /\ fetched' = Append(fetched, start_package)
           /\ dependency_graph' = SetItem(dependency_graph, start_package, dependencies)
           /\ reverse_dependency_graph' =
                  AddReverse(reverse_dependency_graph, dependencies, start_package, 1)
           /\ stack' = [stack EXCEPT ![Len(stack)] =
                            [@ EXCEPT !.at = "loop",
                                      !.filtered_dependencies = dependencies,
                                      !.next = 1]]
    /\ UNCHANGED <<config, repository, cycle_detected>>

\* no check fires: the package is marked, its dependencies are fetched and
\* filtered, and both graphs are updated
BfsExpand ==
    /\ UNCHANGED <<asmVars, frdVars, hwVars, shVars>>
    /\ stack # <<>>
    /\ Top.at = "enter"
    /\ ~InPath(Top.start_package, Top.path)
    /\ ~TooDeep(recursion_depth + 1)
    /\ ~IsVisited(Top.start_package, visited_packages)
    /\ LET start_package == Top.start_package
           dependencies == Dependencies(repository, start_package)
           filtered_dependencies == FilterDependencies(config, dependencies)
       IN  /\ recursion_depth' = recursion_depth + 1
           /\ visited_packages' = visited_packages \cup {start_package}
           /\ fetched' = Append(fetched, start_package)
           /\ dependency_graph' =
                  SetItem(dependency_graph, start_package, filtered_dependencies)
           /\ reverse_dependency_graph' =
                  AddReverse(reverse_dependency_graph, filtered_dependencies,
                             start_package, 1)
           /\ stack' = [stack EXCEPT ![Len(stack)] =
                            [@ EXCEPT !.at = "loop",
                                      !.filtered_dependencies = filtered_dependencies,
                                      !.next = 1]]
    /\ UNCHANGED <<config, repository, cycle_detected>>

\* the loop over filtered_dependencies calls itself on the next dependency
BfsRecurse ==
    /\ UNCHANGED <<asmVars, frdVars, hwVars, shVars>>
    /\ stack # <<>>
    /\ Top.at = "loop"
    /\ Top.next <= Len(Top.filtered_dependencies)
    /\ stack' = Append([stack EXCEPT ![Len(stack)].next = @ + 1],
                       Call(Top.filtered_dependencies[Top.next],
                            Append(Top.path, Top.start_package)))
    /\ UNCHANGED <<config, repository, dependency_graph, reverse_dependency_graph,
                   visited_packages, cycle_detected, recursion_depth, fetched>>

\* the loop is over: the depth is restored and the call returns
BfsReturn ==
    /\ UNCHANGED <<asmVars, frdVars, hwVars, shVars>>
    /\ stack # <<>>
    /\ Top.at = "loop"
    /\ Top.next > Len(Top.filtered_dependencies)
    /\ recursion_depth' = recursion_depth - 1
    /\ stack' = Pop
    /\ UNCHANGED <<config, repository, dependency_graph, reverse_dependency_graph,
                   visited_packages, cycle_detected, fetched>>

NextBfs ==
    BfsCycle \/ BfsDepthLimit \/ BfsVisited \/ BfsExpand \/ BfsRecurse \/ BfsReturn

\* a call that can take a step takes it: the interpreter runs the call to its end
SpecBfs == InitBfs /\ [][NextBfs]_vars /\ WF_vars(NextBfs)

-----------------------------------------------------------------------------
(* practic2/main.py: find_reverse_dependencies on the graph the traversal built *)

\* self.reverse_dependency_graph.get(current_package, [])
Dependents(reverse, current_package) ==
    IF current_package \in DOMAIN reverse THEN reverse[current_package] ELSE <<>>

\* the loop over dependents from index i on: the pair of reverse_deps and queue it
\* leaves; seen is visited after current_package was added
RECURSIVE ScanDependents(_, _, _, _, _, _)
ScanDependents(dependents, seen, target, deps, q, i) ==
    IF i > Len(dependents) THEN <<deps, q>>
    ELSE LET dependent == dependents[i]
         IN  IF dependent \notin seen
             THEN ScanDependents(dependents, seen, target,
                                 IF dependent # target THEN Append(deps, dependent) ELSE deps,
                                 Append(q, dependent), i + 1)
             ELSE ScanDependents(dependents, seen, target, deps, q, i + 1)

\* the call, on the finished graph: visited, queue and reverse_deps are set up
FindReverseDependencies ==
    /\ UNCHANGED <<hwVars, shVars, asmVars, config, repository, dependency_graph,
                   reverse_dependency_graph, visited_packages, cycle_detected,
                   recursion_depth, stack, fetched>>
    /\ stack = <<>>
    /\ frd_at = "idle"
    /\ target_package' \in Packages
    /\ visited' = {}
    /\ queue' = <<target_package'>>
    /\ reverse_deps' = <<>>
    /\ frd_at' = "loop"

\* an iteration that pops a package already visited
FrdSkip ==
    /\ UNCHANGED <<hwVars, shVars, asmVars, config, repository, dependency_graph,
                   reverse_dependency_graph, visited_packages, cycle_detected,
                   recursion_depth, stack, fetched>>
    /\ frd_at = "loop"
    /\ queue # <<>>
    /\ Head(queue) \in visited
    /\ queue' = Tail(queue)
    /\ UNCHANGED <<target_package, visited, reverse_deps, frd_at>>

\* FrdVisit that records the dependents without queueing them
FrdVisit_DirectOnly ==
    /\ UNCHANGED <<hwVars, shVars, asmVars, config, repository, dependency_graph,
                   reverse_dependency_graph, visited_packages, cycle_detected,
                   recursion_depth, stack, fetched>>
    /\ frd_at = "loop"
    /\ queue # <<>>
    /\ Head(queue) \notin visited
    /\ LET current_package == Head(queue)
           scanned == ScanDependents(Dependents(reverse_dependency_graph, current_package),
                                     visited \cup {current_package}, target_package,
                                     reverse_deps, Tail(queue), 1)
       IN  /\ visited' = visited \cup {current_package}
           /\ reverse_deps' = scanned[1]
           /\ queue' = Tail(queue)
    /\ UNCHANGED <<target_package, frd_at>>

\* an iteration that pops a new package, marks it and scans its dependents
FrdVisit ==
    /\ UNCHANGED <<hwVars, shVars, asmVars, config, repository, dependency_graph,
                   reverse_dependency_graph, visited_packages, cycle_detected,
                   recursion_depth, stack, fetched>>
    /\ frd_at = "loop"
    /\ queue # <<>>
    /\ Head(queue) \notin visited
    /\ LET current_package == Head(queue)
           scanned == ScanDependents(Dependents(reverse_dependency_graph, current_package),
                                     visited \cup {current_package}, target_package,
                                     reverse_deps, Tail(queue), 1)
       IN  /\ visited' = visited \cup {current_package}
           /\ reverse_deps' = scanned[1]
           /\ queue' = scanned[2]
    /\ UNCHANGED <<target_package, frd_at>>

\* the queue is empty: return reverse_deps
FrdReturn ==
    /\ UNCHANGED <<hwVars, shVars, asmVars, config, repository, dependency_graph,
                   reverse_dependency_graph, visited_packages, cycle_detected,
                   recursion_depth, stack, fetched>>
    /\ frd_at = "loop"
    /\ queue = <<>>
    /\ frd_at' = "returned"
    /\ UNCHANGED <<target_package, visited, queue, reverse_deps>>

NextReverse ==
    \/ BfsCycle \/ BfsDepthLimit \/ BfsVisited \/ BfsExpand \/ BfsRecurse \/ BfsReturn
    \/ FindReverseDependencies \/ FrdSkip \/ FrdVisit \/ FrdReturn

\* the graph is built, then the reverse dependencies of a package are searched;
\* each call runs to its end
SpecReverse == InitBfs /\ [][NextReverse]_vars /\ WF_vars(NextReverse)

-----------------------------------------------------------------------------
(* homework/main.py: strings are kept as the sequences of their characters  *)

Digits == <<"0", "1", "2", "3", "4", "5", "6", "7", "8", "9">>

IsDigit(c) == c \in Range(Digits)

DigitValue(c) == (CHOOSE i \in 1..10 : Digits[i] = c) - 1

AllDigits(s) == \A i \in DOMAIN s : IsDigit(s[i])

\* str(n) of a non-negative int
RECURSIVE StrNat(_)
StrNat(n) ==
    IF n < 10 THEN <<Digits[n + 1]>>
    ELSE Append(StrNat(n \div 10), Digits[(n % 10) + 1])

\* str(value) of an int
StrInt(n) == IF n < 0 THEN <<"-">> \o StrNat(-n) ELSE StrNat(n)

\* the value of a non-empty string of digits
RECURSIVE NatOf(_)
NatOf(s) ==
    IF Len(s) = 1 THEN DigitValue(s[1])
    ELSE 10 * NatOf(SubSeq(s, 1, Len(s) - 1)) + DigitValue(s[Len(s)])

\* A float is kept as its sign and its magnitude, so that -0.0 is told from 0.0.
\* Literals and constants are integers here and products of integers are
\* integers: the floats of the model have no fraction.
Float(neg, mag) == [ok |-> TRUE, neg |-> neg, mag |-> mag]

NotAFloat == [ok |-> FALSE, neg |-> FALSE, mag |-> 0]

FloatValue(f) == IF f.neg THEN 0 - f.mag ELSE f.mag

\* str(result) of a float without fraction
StrFloat(f) == (IF f.neg THEN <<"-">> ELSE <<>>) \o StrNat(f.mag) \o <<".", "0">>

\* float(s): an optional sign, digits, and an optional point followed by zeros;
\* ValueError otherwise
ParseFloat(s) ==
    LET signed == s # <<>> /\ s[1] \in {"-", "+"}
        body   == IF signed THEN Tail(s) ELSE s
        points == {i \in DOMAIN body : body[i] = "."}
        point  == IF points = {} THEN Len(body) + 1 ELSE CHOOSE i \in points : TRUE
        whole  == SubSeq(body, 1, point - 1)
        frac   == SubSeq(body, point + 1, Len(body))
    IN  IF /\ Cardinality(points) <= 1
           /\ AllDigits(whole)
           /\ \A i \in DOMAIN frac : frac[i] = "0"
           /\ whole # <<>> \/ frac # <<>>
        THEN Float(signed /\ s[1] = "-", IF whole = <<>> THEN 0 ELSE NatOf(whole))
        ELSE NotAFloat

\* left * right
FloatMul(l, r) == Float(l.neg # r.neg, l.mag * r.mag)

\* left + right; the sum of two zeros is -0.0 only when both are
FloatAdd(l, r) ==
    LET v == FloatValue(l) + FloatValue(r)
    IN  IF v # 0 THEN Float(v < 0, IF v < 0 THEN 0 - v ELSE v)
        ELSE Float(l.neg /\ r.neg /\ l.mag = 0 /\ r.mag = 0, 0)

\* left - right
FloatSub(l, r) == FloatAdd(l, Float(~r.neg, r.mag))

\* s.strip() for the blank
RECURSIVE Strip(_)
Strip(s) ==
    IF s = <<>> THEN s
    ELSE IF s[1] = " " THEN Strip(Tail(s))
    ELSE IF s[Len(s)] = " " THEN Strip(SubSeq(s, 1, Len(s) - 1))
    ELSE s

StartsWith(s, prefix) ==
    Len(s) >= Len(prefix) /\ SubSeq(s, 1, Len(prefix)) = prefix

EndsWith(s, suffix) ==
    Len(s) >= Len(suffix) /\ SubSeq(s, Len(s) - Len(suffix) + 1, Len(s)) = suffix

\* s.replace(old, new): the occurrences of old from left to right, not overlapping
RECURSIVE Replace(_, _, _)
Replace(s, old, new) ==
    IF Len(s) < Len(old) THEN s
    ELSE IF SubSeq(s, 1, Len(old)) = old
         THEN new \o Replace(SubSeq(s, Len(old) + 1, Len(s)), old, new)
         ELSE <<s[1]>> \o Replace(Tail(s), old, new)


\* sorted(self.constants.items(), key=lambda x: -len(x[0])): longest name first and,
\* the sort being stable, insertion order among names of one length
RECURSIVE SortedByLength(_, _)
SortedByLength(cs, n) ==
    IF n = 0 THEN <<>>
    ELSE SelectSeq(cs, LAMBDA c : Len(c.name) = n) \o SortedByLength(cs, n - 1)

LongestName(cs) ==
    IF cs = <<>> THEN 0
    ELSE CHOOSE n \in {Len(cs[i].name) : i \in DOMAIN cs} :
             \A i \in DOMAIN cs : Len(cs[i].name) <= n

\* the values evaluate_math_expression returns
IntResult(n) == [kind |-> "int", value |-> n, text |-> <<>>]

BoolResult(b) == [kind |-> "bool", value |-> IF b THEN 1 ELSE 0, text |-> <<>>]

StrResult(s) == [kind |-> "str", value |-> 0, text |-> s]

\* what eval returned, for a string that is no call of a number
EvalResult(s) == [kind |-> "eval", value |-> 0, text |-> s]

\* an exception leaves evaluate_math_expression
Raised == [kind |-> "raise", value |-> 0, text |-> <<>>]

\* str(value) of an int or a bool
StrValue(v) ==
    IF v.kind = "bool"
    THEN (IF v.value = 1 THEN <<"T", "r", "u", "e">> ELSE <<"F", "a", "l", "s", "e">>)
    ELSE StrInt(v.value)

\* the loop `for name, value in cs: if isinstance(value, (int, float)):
\* expr = expr.replace(name, str(value))`; a bool is an int
RECURSIVE ReplaceConstants(_, _)
ReplaceConstants(cs, expr) ==
    IF cs = <<>> THEN expr
    ELSE ReplaceConstants(Tail(cs),
                          IF cs[1].value.kind \in {"int", "bool"}
                          THEN Replace(expr, cs[1].name, StrValue(cs[1].value))
                          ELSE expr)

-----------------------------------------------------------------------------
(* homework/main.py: evaluate_math_expression, evaluate_expression, translate *)

RemoveSpaces(s) == SelectSeq(s, LAMBDA c : c # " ")

\* the loop over args_str + ',' from index i on: the stripped arguments
RECURSIVE SplitArguments(_, _, _, _, _)
SplitArguments(chars, i, current, depth, args) ==
    LET flushed == IF Strip(current) # <<>> THEN Append(args, Strip(current)) ELSE args
    IN  IF i > Len(chars) THEN flushed
        ELSE IF chars[i] = "("
             THEN SplitArguments(chars, i + 1, Append(current, chars[i]), depth + 1, args)
        ELSE IF chars[i] = ")"
             THEN SplitArguments(chars, i + 1, Append(current, chars[i]), depth - 1, args)
        ELSE IF chars[i] = "," /\ depth = 0
             THEN SplitArguments(chars, i + 1, <<>>, depth, flushed)
        ELSE SplitArguments(chars, i + 1, Append(current, chars[i]), depth, args)

\* min(args) if args else 0; comparing a str with an int raises TypeError, and a
\* list of two or more strings does not arise from the inputs of the model
MinOf(args) ==
    IF args = <<>> THEN IntResult(0)
    ELSE IF Len(args) = 1 THEN args[1]
    ELSE IF \A i \in DOMAIN args : args[i].kind \in {"int", "bool"}
         THEN LET least == CHOOSE i \in DOMAIN args :
                               /\ \A j \in DOMAIN args : args[i].value <= args[j].value
                               /\ \A j \in 1..(i - 1) : args[j].value > args[i].value
              IN  args[least]
         ELSE Raised

\* how many characters at the end of left_expr are digits, points or minus signs
RECURSIVE LeftOperandLength(_)
LeftOperandLength(left_expr) ==
    IF left_expr = <<>> THEN 0
    ELSE IF IsDigit(left_expr[Len(left_expr)]) \/ left_expr[Len(left_expr)] \in {".", "-"}
         THEN 1 + LeftOperandLength(SubSeq(left_expr, 1, Len(left_expr) - 1))
         ELSE 0

\* the index j the scan of right_expr stops at
RECURSIVE RightOperandLength(_, _)
RightOperandLength(right_expr, j) ==
    IF j < Len(right_expr)
       /\ (IsDigit(right_expr[j + 1]) \/ right_expr[j + 1] = "."
           \/ (j = 0 /\ right_expr[j + 1] = "-"))
    THEN RightOperandLength(right_expr, j + 1)
    ELSE j

\* while '*' in expr: multiply the numbers around the first '*'
RECURSIVE MultiplyLoop(_)
MultiplyLoop(expr) ==
    IF "*" \notin Range(expr) THEN expr
    ELSE LET star       == CHOOSE i \in DOMAIN expr :
                               expr[i] = "*" /\ \A k \in 1..(i - 1) : expr[k] # "*"
             left_expr  == SubSeq(expr, 1, star - 1)
             right_expr == SubSeq(expr, star + 1, Len(expr))
             n          == LeftOperandLength(left_expr)
             left_part  == SubSeq(left_expr, 1, Len(left_expr) - n)
             left_num   == SubSeq(left_expr, Len(left_expr) - n + 1, Len(left_expr))
             j          == RightOperandLength(right_expr, 0)
             right_num  == SubSeq(right_expr, 1, j)
             right_part == SubSeq(right_expr, j + 1, Len(right_expr))
             l          == ParseFloat(left_num)
             r          == ParseFloat(right_num)
         IN  IF l.ok /\ r.ok
             THEN MultiplyLoop(left_part \o StrFloat(FloatMul(l, r)) \o right_part)
             ELSE expr

\* the loop over the '+' and '-' of expr from index i (counted from 0) on;
\* expr[i-1] at i = 0 is Python's expr[-1], the last character
RECURSIVE AddSubLoop(_, _)
AddSubLoop(expr, i) ==
    IF i >= Len(expr) THEN expr
    ELSE LET before == IF i = 0 THEN expr[Len(expr)] ELSE expr[i]
             l      == ParseFloat(SubSeq(expr, 1, i))
             r      == ParseFloat(SubSeq(expr, i + 2, Len(expr)))
         IN  IF expr[i + 1] \in {"+", "-"} /\ before \notin {"e", "E"} /\ l.ok /\ r.ok
             THEN AddSubLoop(StrFloat(IF expr[i + 1] = "+" THEN FloatAdd(l, r)
                                      ELSE FloatSub(l, r)), 0)
             ELSE AddSubLoop(expr, i + 1)

SafeCharacters == Range(Digits) \cup {"+", "-", "*", "/", ".", "(", ")", " "}

\* a number applied to arguments, such as 6(20): eval raises TypeError
CallsNumber(expr) ==
    \E i \in 1..(Len(expr) - 1) : IsDigit(expr[i]) /\ expr[i + 1] = "("

\* the end of evaluate_math_expression: the number, the boolean, or the string
\* left after the constants were replaced once more, in insertion order
Convert(cs, expr) ==
    LET f        == ParseFloat(expr)
        replaced == ReplaceConstants(cs, expr)
    IN  IF f.ok THEN IntResult(FloatValue(f))
        ELSE IF expr = <<"t", "r", "u", "e">> THEN BoolResult(TRUE)
        ELSE IF expr = <<"f", "a", "l", "s", "e">> THEN BoolResult(FALSE)
        ELSE IF Range(replaced) \subseteq SafeCharacters /\ ~CallsNumber(replaced)
             THEN EvalResult(replaced)
        ELSE StrResult(replaced)

RECURSIVE evaluate_math_expression(_, _)
evaluate_math_expression(cs, unstripped) ==
    LET expr == Strip(unstripped)
    IN  IF StartsWith(expr, <<"m", "i", "n", "(">>) /\ EndsWith(expr, <<")">>)
        THEN LET args_str == SubSeq(expr, 5, Len(expr) - 1)
                 strings  == SplitArguments(Append(args_str, ","), 1, <<>>, 0, <<>>)
                 args     == [i \in DOMAIN strings |->
                                  evaluate_math_expression(cs, strings[i])]
             IN  IF \E i \in DOMAIN args : args[i].kind = "raise" THEN Raised
                 ELSE MinOf(args)
        ELSE Convert(cs, AddSubLoop(MultiplyLoop(RemoveSpaces(expr)), 1))

\* the constants are replaced in the text of the expression, longest name first
evaluate_expression(cs, expr) ==
    evaluate_math_expression(cs, ReplaceConstants(SortedByLength(cs, LongestName(cs)), expr))

\* parse_simple_value on the tokens of the model: booleans, integers and names
parse_simple_value(cs, unstripped) ==
    LET token == Strip(unstripped)
        digits == IF token # <<>> /\ token[1] = "-" THEN Tail(token) ELSE token
    IN  IF token = <<"t", "r", "u", "e">> THEN BoolResult(TRUE)
        ELSE IF token = <<"f", "a", "l", "s", "e">> THEN BoolResult(FALSE)
        ELSE IF digits # <<>> /\ AllDigits(digits) THEN IntResult(FloatValue(ParseFloat(token)))
        ELSE IF \E i \in DOMAIN cs : cs[i].name = token
             THEN cs[CHOOSE i \in DOMAIN cs : cs[i].name = token].value
        ELSE StrResult(token)

\* parse_value on an expression !{...} or a simple value
parse_value(cs, unstripped) ==
    LET token == Strip(unstripped)
    IN  IF StartsWith(token, <<"!", "{">>) /\ EndsWith(token, <<"}">>)
        THEN evaluate_expression(cs, Strip(SubSeq(token, 3, Len(token) - 1)))
        ELSE parse_simple_value(cs, token)

Letters ==
    {"a", "b", "c", "d", "e", "f", "g", "h", "i", "j", "k", "l", "m", "n", "o", "p", "q",
     "r", "s", "t", "u", "v", "w", "x", "y", "z"}

\* re.match(r'^[a-zA-Z][_a-zA-Z0-9]*$', name), on lower-case text
ValidName(name) ==
    /\ name # <<>>
    /\ name[1] \in Letters
    /\ \A i \in DOMAIN name : name[i] \in Letters \cup Range(Digits) \cup {"_"}

\* self.constants[name] = value: a new key goes last, an old one keeps its place
SetConstant(cs, name, value) ==
    IF \E i \in DOMAIN cs : cs[i].name = name
    THEN [i \in DOMAIN cs |-> IF cs[i].name = name THEN [name |-> name, value |-> value]
                              ELSE cs[i]]
    ELSE Append(cs, [name |-> name, value |-> value])

\* the first pass of translate over the lines `value -> name`: the value is an
\* expression evaluated at once or a simple value; a value whose evaluation
\* raises is passed over
RECURSIVE FirstPass(_, _, _)
FirstPass(decls, i, cs) ==
    IF i > Len(decls) THEN cs
    ELSE LET name      == Strip(decls[i].name)
             value_str == Strip(decls[i].value_str)
             value     == IF StartsWith(value_str, <<"!", "{">>)
                          THEN evaluate_math_expression(
                                   cs, Strip(SubSeq(value_str, 3, Len(value_str) - 1)))
                          ELSE parse_simple_value(cs, value_str)
         IN  FirstPass(decls, i + 1,
                       IF ValidName(name) /\ value.kind # "raise"
                       THEN SetConstant(cs, name, value) ELSE cs)

\* the second pass of translate over the lines `value -> name`: a name the first
\* pass stored goes to the output with its value
RECURSIVE SecondPass(_, _, _, _)
SecondPass(decls, i, cs, out) ==
    IF i > Len(decls) THEN out
    ELSE SecondPass(decls, i + 1, cs,
                    IF \E k \in DOMAIN cs : cs[k].name = Strip(decls[i].name)
                    THEN SetItem(out, Strip(decls[i].name),
                                 cs[CHOOSE k \in DOMAIN cs : cs[k].name = Strip(decls[i].name)].value)
                    ELSE out)

-----------------------------------------------------------------------------
(* Input texts: declarations of integer constants, then one assignment       *)
(* name = !{min(...)}, as in the tests "Min" and "Комплексный" of run_tests  *)

\* most arguments of min in an input text
MaxArgs == 2

ConstantNames == {<<"x">>, <<"m">>, <<"i", "n">>, <<"a", "_", "1">>}

ConstantValues == {0 - 2, 6}

Literals == {5, 20}

\* the declarations of at most two constants of different names
DeclarationLists ==
    {<<>>}
    \cup {<<[name |-> n, value |-> v]>> : n \in ConstantNames, v \in ConstantValues}
    \cup {<<d[1], d[2]>> : d \in {e \in [1..2 -> [name : ConstantNames, value : ConstantValues]] :
                                      e[1].name # e[2].name}}

Literal(n) == [kind |-> "literal", n |-> n, name |-> <<>>]

Constant(name) == [kind |-> "constant", n |-> 0, name |-> name]

\* an argument is a literal, a declared constant, or a declared constant times one
\* of these
ArgumentsOver(decls) ==
    LET names == {Constant(decls[i].name) : i \in DOMAIN decls}
        atoms == {Literal(n) : n \in Literals} \cup names
    IN  {<<a>> : a \in atoms} \cup {<<c, a>> : c \in names, a \in atoms}

ArgumentLists(decls) ==
    UNION {[1..k -> ArgumentsOver(decls)] : k \in 1..MaxArgs}

\* parts joined by sep
RECURSIVE Join(_, _)
Join(parts, sep) ==
    IF parts = <<>> THEN <<>>
    ELSE IF Len(parts) = 1 THEN parts[1]
    ELSE parts[1] \o sep \o Join(Tail(parts), sep)

AtomText(atom) == IF atom.kind = "literal" THEN StrInt(atom.n) ELSE atom.name

ArgumentText(arg) == Join([i \in DOMAIN arg |-> AtomText(arg[i])], <<" ", "*", " ">>)

\* the text right of '=' in the line y = !{min(e1, ..., en)}
AssignmentText(args) ==
    <<"!", "{", "m", "i", "n", "(">>
    \o Join([i \in DOMAIN args |-> ArgumentText(args[i])], <<",", " ">>)
    \o <<")", "}">>

\* the two parts of the line `value -> name`
DeclarationLine(decl) == [value_str |-> StrInt(decl.value), name |-> decl.name]

AssignedName == <<"y">>

InitTranslate ==
    /\ NoAssembler
    /\ NoShell
    /\ NoReverseSearch
    /\ config = EmptyDict
    /\ repository = EmptyDict
    /\ dependency_graph = EmptyDict
    /\ reverse_dependency_graph = EmptyDict
    /\ visited_packages = {}
    /\ cycle_detected = FALSE
    /\ recursion_depth = 0
    /\ stack = <<>>
    /\ fetched = <<>>
    /\ declarations \in DeclarationLists
    /\ arguments \in ArgumentLists(declarations)
    /\ constants = <<>>
    /\ output = EmptyDict
    /\ hw_at = "created"

\* translate(text): the first pass stores the constants, the second writes them
\* to the output and evaluates the assignment; an assignment whose evaluation
\* raises is skipped with a warning
Translate ==
    /\ UNCHANGED <<asmVars, bfsVars, shVars>>
    /\ hw_at = "created"
    /\ LET decls == [i \in DOMAIN declarations |-> DeclarationLine(declarations[i])]
           cs    == FirstPass(decls, 1, constants)
           out   == SecondPass(decls, 1, cs, output)
           value == parse_value(cs, AssignmentText(arguments))
       IN  /\ constants' = cs
           /\ output' = IF value.kind = "raise" THEN out
                        ELSE SetItem(out, AssignedName, value)
    /\ hw_at' = "translated"
    /\ UNCHANGED <<declarations, arguments>>

NextTranslate == Translate

SpecTranslate == InitTranslate /\ [][NextTranslate]_vars

-----------------------------------------------------------------------------
(* practic1/tempCodeRunnerFile.py: ShellEmulator.run_script                  *)

\* most lines of a script
MaxLines == 3

\* shlex.split(command_line) on text of letters, '/', '#', blanks and double
\* quotes, from index i on: blanks separate the parts, a quoted stretch belongs
\* to its part (also when empty), and an open quote at the end is a ValueError
RECURSIVE ShlexSplit(_, _, _, _, _, _)
ShlexSplit(s, i, token, in_token, quoted, parts) ==
    IF i > Len(s)
    THEN IF quoted THEN [ok |-> FALSE, parts |-> <<>>]
         ELSE [ok |-> TRUE, parts |-> IF in_token THEN Append(parts, token) ELSE parts]
    ELSE IF quoted
         THEN IF s[i] = "\""
              THEN ShlexSplit(s, i + 1, token, TRUE, FALSE, parts)
              ELSE ShlexSplit(s, i + 1, Append(token, s[i]), TRUE, TRUE, parts)
    ELSE IF s[i] = "\"" THEN ShlexSplit(s, i + 1, token, TRUE, TRUE, parts)
    ELSE IF s[i] = " "
         THEN ShlexSplit(s, i + 1, <<>>, FALSE, FALSE,
                         IF in_token THEN Append(parts, token) ELSE parts)
    ELSE ShlexSplit(s, i + 1, Append(token, s[i]), TRUE, FALSE, parts)

\* parse_arguments: the parts, or None after a ValueError
parse_arguments(command_line) == ShlexSplit(command_line, 1, <<>>, FALSE, FALSE, <<>>)

\* os.path.join(current, arg) for an arg that does not start with '/'
PathJoin(current, arg) ==
    IF current = <<>> \/ current[Len(current)] = "/" THEN current \o arg
    ELSE current \o <<"/">> \o arg

\* cmd_cd: the directory it leaves
cmd_cd(dir, args) ==
    IF args = <<>> THEN dir
    ELSE IF StartsWith(args[1], <<"/">>) THEN args[1]
    ELSE PathJoin(dir, args[1])

\* the keys of self.commands other than exit, which leaves through sys.exit(0)
ReturningCommands == {<<"l", "s">>, <<"c", "d">>, <<"e", "c", "h", "o">>, <<"p", "w", "d">>}

ExitCommand == <<"e", "x", "i", "t">>

\* execute_command: what a returning command returns, False for an unknown one
execute_command(command, args) ==
    IF command \in ReturningCommands
    THEN (IF command = <<"c", "d">> THEN args # <<>> ELSE TRUE)
    ELSE FALSE

\* the lines scripts are made of
ScriptLines ==
    {<<"l", "s">>,
     <<"c", "d", " ", "/", "a">>,
     <<"c", "d", " ", "b">>,
     <<"c", "d">>,
     <<"f", "o", "o">>,
     <<"e", "c", "h", "o", " ", "\"", "x", " ", "y", "\"">>,
     <<"e", "c", "h", "o", " ", "\"", "x">>,
     <<"#", " ", "c", "d", " ", "/", "a">>,
     <<>>,
     <<" ", "p", "w", "d", " ">>,
     <<"e", "x", "i", "t">>}

Scripts == UNION {[1..n -> ScriptLines] : n \in 0..MaxLines}

\* a fresh ShellEmulator whose run_interactive is about to call run_script
InitShell ==
    /\ NoAssembler
    /\ NoTranslator
    /\ NoReverseSearch
    /\ config = EmptyDict
    /\ repository = EmptyDict
    /\ dependency_graph = EmptyDict
    /\ reverse_dependency_graph = EmptyDict
    /\ visited_packages = {}
    /\ cycle_detected = FALSE
    /\ recursion_depth = 0
    /\ stack = <<>>
    /\ fetched = <<>>
    /\ script_exists \in BOOLEAN
    /\ lines \in (IF script_exists THEN Scripts ELSE {<<>>})
    /\ line_num = 0
    /\ current_dir = <<"/">>
    /\ executed = <<>>
    /\ result = "none"

\* the line the loop takes next, stripped
NextLine == Strip(lines[line_num + 1])

Running == script_exists /\ result = "none" /\ line_num < Len(lines)

Skipped(line) == line = <<>> \/ StartsWith(line, <<"#">>)

\* os.path.exists(script_path) is false: return False
ScriptNotFound ==
    /\ UNCHANGED <<asmVars, bfsVars, hwVars>>
    /\ ~script_exists
    /\ result = "none"
    /\ result' = "False"
    /\ UNCHANGED <<script_exists, lines, line_num, current_dir, executed>>

\* an empty line or a comment: continue
SkipLine ==
    /\ UNCHANGED <<asmVars, bfsVars, hwVars>>
    /\ Running
    /\ Skipped(NextLine)
    /\ line_num' = line_num + 1
    /\ UNCHANGED <<script_exists, lines, current_dir, executed, result>>

\* parse_arguments returned None: return False
ParseFailure ==
    /\ UNCHANGED <<asmVars, bfsVars, hwVars>>
    /\ Running
    /\ ~Skipped(NextLine)
    /\ ~parse_arguments(NextLine).ok
    /\ line_num' = line_num + 1
    /\ result' = "False"
    /\ UNCHANGED <<script_exists, lines, current_dir, executed>>

\* CommandFails that goes on with the next line
CommandFails_GoesOn ==
    /\ UNCHANGED <<asmVars, bfsVars, hwVars>>
    /\ Running
    /\ ~Skipped(NextLine)
    /\ parse_arguments(NextLine).ok
    /\ LET parts == parse_arguments(NextLine).parts
       IN  /\ parts[1] # ExitCommand
           /\ ~execute_command(parts[1], Tail(parts))
    /\ line_num' = line_num + 1
    /\ executed' = Append(executed, line_num + 1)
    /\ UNCHANGED <<script_exists, lines, current_dir, result>>

\* execute_command returned False: return False
CommandFails ==
    /\ UNCHANGED <<asmVars, bfsVars, hwVars>>
    /\ Running
    /\ ~Skipped(NextLine)
    /\ parse_arguments(NextLine).ok
    /\ LET parts == parse_arguments(NextLine).parts
       IN  /\ parts[1] # ExitCommand
           /\ ~execute_command(parts[1], Tail(parts))
    /\ line_num' = line_num + 1
    /\ executed' = Append(executed, line_num + 1)
    /\ result' = "False"
    /\ UNCHANGED <<script_exists, lines, current_dir>>

\* execute_command returned True: cd has moved current_dir, the loop goes on
CommandSucceeds ==
    /\ UNCHANGED <<asmVars, bfsVars, hwVars>>
    /\ Running
    /\ ~Skipped(NextLine)
    /\ parse_arguments(NextLine).ok
    /\ LET parts == parse_arguments(NextLine).parts
       IN  /\ parts[1] # ExitCommand
           /\ execute_command(parts[1], Tail(parts))
           /\ current_dir' = IF parts[1] = <<"c", "d">> THEN cmd_cd(current_dir, Tail(parts))
                             ELSE current_dir
    /\ line_num' = line_num + 1
    /\ executed' = Append(executed, line_num + 1)
    /\ UNCHANGED <<script_exists, lines, result>>

\* cmd_exit: sys.exit(0) ends the process, run_script does not return
CommandExits ==
    /\ UNCHANGED <<asmVars, bfsVars, hwVars>>
    /\ Running
    /\ ~Skipped(NextLine)
    /\ parse_arguments(NextLine).ok
    /\ parse_arguments(NextLine).parts[1] = ExitCommand
    /\ line_num' = line_num + 1
    /\ executed' = Append(executed, line_num + 1)
    /\ result' = "exit"
    /\ UNCHANGED <<script_exists, lines, current_dir>>

\* the loop is over: return True
ScriptDone ==
    /\ UNCHANGED <<asmVars, bfsVars, hwVars>>
    /\ script_exists
    /\ result = "none"
    /\ line_num = Len(lines)
    /\ result' = "True"
    /\ UNCHANGED <<script_exists, lines, line_num, current_dir, executed>>

NextShell ==
    \/ ScriptNotFound \/ SkipLine \/ ParseFailure \/ CommandFails \/ CommandSucceeds
    \/ CommandExits \/ ScriptDone

SpecShell == InitShell /\ [][NextShell]_vars

-----------------------------------------------------------------------------
(* Properties of encode_command on one record *)

\* the record whose encoding cmd_binary holds
EncodedRecord == program[cmd_index]

EncodedAs(types) == pc = "encoded" /\ EncodedRecord.type \in types

\* the four bytes of a 32-bit word, least significant first
WordBytes(word) ==
    <<word % 256, (word \div 256) % 256, (word \div 65536) % 256, word \div 16777216>>

LoadConstWord(constant, address) ==
    11 + (constant % 16384) * 64 + (address % 128) * 1048576

\* C1: a load_const record encodes to the 4 bytes, least significant first, of
\* word = (11 & 0x3F) | ((constant & 0x3FFF) << 6) | ((address & 0x7F) << 20).
C1_LoadConstWord ==
    EncodedAs({"load_const"}) =>
        cmd_binary = Bytes(WordBytes(LoadConstWord(EncodedRecord.constant,
                                                   EncodedRecord.address)))

\* a load_const whose operands are both wider than their fields was encoded
C1_Witness ==
    /\ EncodedAs({"load_const"})
    /\ EncodedRecord.constant = 32767
    /\ EncodedRecord.address = 255
    /\ cmd_binary = Bytes(<<203, 255, 255, 7>>)

RegistryOpcode(type) == IF type = "read_mem" THEN 24 ELSE 7

\* C2: a read_mem or abs record encodes to the three bytes opcode & 0x3F,
\* ((B & 0x7F) << 1) | ((C >> 6) & 1), C & 0x3F, with opcode 24 for read_mem and
\* 7 for abs, B = result_addr and C = source_addr.
C2_ThreeByteLayout ==
    EncodedAs({"read_mem", "abs"}) =>
        LET B == EncodedRecord.result_addr
            C == EncodedRecord.source_addr
        IN cmd_binary = Bytes(<<RegistryOpcode(EncodedRecord.type) % 64,
                                (B % 128) * 2 + ((C \div 64) % 2),
                                C % 64>>)

\* an abs whose source_addr has bit 6 set and bit 7 clear was encoded
C2_Witness ==
    /\ EncodedAs({"abs"})
    /\ EncodedRecord.result_addr = 127
    /\ EncodedRecord.source_addr = 64
    /\ cmd_binary = Bytes(<<7, 255, 0>>)

\* C3: a write_mem record encodes to the five bytes 30 & 0x3F, (offset >> 8) & 0x3F,
\* offset & 0xFF, ((value_addr & 0x7F) << 1) | ((base_addr >> 6) & 1), base_addr & 0x3F.
C3_WriteMemLayout ==
    EncodedAs({"write_mem"}) =>
        LET offset == EncodedRecord.offset
            value_addr == EncodedRecord.value_addr
            base_addr == EncodedRecord.base_addr
        IN cmd_binary = Bytes(<<30,
                                (offset \div 256) % 64,
                                offset % 256,
                                (value_addr % 128) * 2 + ((base_addr \div 64) % 2),
                                base_addr % 64>>)

\* a write_mem whose offset uses both offset bytes was encoded
C3_Witness ==
    /\ EncodedAs({"write_mem"})
    /\ EncodedRecord.offset = 511
    /\ EncodedRecord.value_addr = 1
    /\ EncodedRecord.base_addr = 64
    /\ cmd_binary = Bytes(<<30, 1, 255, 3, 0>>)

ValidMnemonics == {"load_const", "read_mem", "write_mem", "abs"}

ByteLength(type) ==
    CASE type = "load_const" -> 4
      [] type \in {"read_mem", "abs"} -> 3
      [] type = "write_mem" -> 5

\* C5: for a valid mnemonic and a complete operand map, whatever the operand values,
\* encode_command returns bytes (it never raises) and their number is 4 for
\* load_const, 3 for read_mem and abs, 5 for write_mem.
C5_ByteLength ==
    /\ error.exc # "struct.error"
    /\ EncodedAs(ValidMnemonics) =>
          /\ cmd_binary.ret = "bytes"
          /\ Len(cmd_binary.data) = ByteLength(EncodedRecord.type)

\* a write_mem whose three operands are all wider than their fields was encoded
C5_Witness ==
    /\ EncodedAs({"write_mem"})
    /\ EncodedRecord.offset = 32768
    /\ EncodedRecord.value_addr = 256
    /\ EncodedRecord.base_addr = 128
    /\ Len(cmd_binary.data) = 5

\* parse_program then encode_command on one well-formed record
EncodeRecord(record) ==
    encode_command([type |-> record.type, fields |-> BuildFields(commands, record)])

\* the declared width of each operand field
FieldWidth(key) == IF key \in {"constant", "offset"} THEN 14 ELSE 7

OperandsOf(record) == Range(OperandKeys(record.type))

\* C9: masking law: encoding a record with an operand equal to v and with it equal
\* to v + 2^w, w the operand's declared width, gives the same bytes, for every
\* operand of every mnemonic; an out-of-range value is never rejected.
C9_MaskingLaw ==
    EncodedAs(ValidMnemonics) =>
        /\ cmd_binary.ret = "bytes"
        /\ \A key \in OperandsOf(EncodedRecord) :
              EncodeRecord([EncodedRecord EXCEPT ![key] = @ + 2 ^ FieldWidth(key)])
                  = cmd_binary

\* a read_mem whose source_addr is the largest 7-bit value was encoded: adding 2^7
\* carries out of the field
C9_Witness ==
    /\ EncodedAs({"read_mem"})
    /\ EncodedRecord.result_addr = 64
    /\ EncodedRecord.source_addr = 127
    /\ cmd_binary = Bytes(<<24, 129, 63>>)
    /\ EncodeRecord(ReadMem(64, 255)) = cmd_binary

WithinWidths(record) ==
    \A key \in OperandsOf(record) : record[key] < 2 ^ FieldWidth(key)

\* the decoder that inverts the packing formulas, as a map of the decoded fields
Decode(type, b) ==
    CASE type = "load_const" ->
            LET word == b[1] + 256 * b[2] + 65536 * b[3] + 16777216 * b[4]
            IN [type |-> type,
                opcode |-> BitAnd(word, 63),
                constant |-> BitAnd(ShiftRight(word, 6), 16383),
                address |-> BitAnd(ShiftRight(word, 20), 127)]
      [] type \in {"read_mem", "abs"} ->
            [type |-> type,
             opcode |-> b[1],
             result_addr |-> ShiftRight(b[2], 1),
             source_addr |-> BitOr(ShiftLeft(BitAnd(b[2], 1), 6), b[3])]
      [] type = "write_mem" ->
            [type |-> type,
             opcode |-> b[1],
             offset |-> BitOr(ShiftLeft(b[2], 8), b[3]),
             value_addr |-> ShiftRight(b[4], 1),
             base_addr |-> BitOr(ShiftLeft(BitAnd(b[4], 1), 6), b[5])]

\* C10: round trip: for operands within their declared widths, decoding the
\* encoded bytes with the inverse formulas returns the original operand values and
\* the mnemonic's opcode.
C10_RoundTrip ==
    (EncodedAs(ValidMnemonics) /\ WithinWidths(EncodedRecord)) =>
        LET decoded == Decode(EncodedRecord.type, cmd_binary.data)
        IN /\ decoded.opcode = InitCommands[EncodedRecord.type]
           /\ \A key \in OperandsOf(EncodedRecord) : decoded[key] = EncodedRecord[key]

\* a write_mem with the largest in-range operands was encoded and decodes to itself
C10_Witness ==
    /\ EncodedAs({"write_mem"})
    /\ EncodedRecord = WriteMem(16383, 127, 127)
    /\ cmd_binary = Bytes(<<30, 63, 255, 255, 63>>)
    /\ Decode("write_mem", cmd_binary.data).base_addr = 127

-----------------------------------------------------------------------------
(* Properties of a whole assembly *)

\* the bytes of record i on its own
EncodingOf(i) == EncodeRecord(program[i]).data

\* the sum of the lengths of the encodings of records 1..n
RECURSIVE LengthUpTo(_)
LengthUpTo(n) == IF n = 0 THEN 0 ELSE LengthUpTo(n - 1) + Len(EncodingOf(n))

\* C4: the binary assemble_to_binary returns and writes is the concatenation of the
\* records' encodings in input order: its length is the sum of their lengths, the
\* bytes of record i start where those of the records before it end, and nothing
\* else is in it (an empty program gives an empty binary).
C4_Concatenation ==
    pc = "done" =>
        /\ output_file = [exists |-> TRUE, data |-> binary_data]
        /\ Len(binary_data) = LengthUpTo(Len(program))
        /\ \A i \in DOMAIN program :
              SubSeq(binary_data, LengthUpTo(i - 1) + 1, LengthUpTo(i)) = EncodingOf(i)

\* the program of create_test_program was assembled into its 15 bytes
C4_Witness ==
    /\ pc = "done"
    /\ program = TestProgram
    /\ binary_data = <<75, 173, 16, 5, 24, 188, 29, 30, 0, 77, 11, 21, 7, 172, 26>>
    /\ output_file.data = binary_data

UnknownMnemonic(record) == record.type \notin ValidMnemonics

\* the operands of the mnemonic's layout that the record lacks
AbsentFields(record) == Range(OperandKeys(record.type)) \ DOMAIN record

MissingOperand(record) == ~UnknownMnemonic(record) /\ AbsentFields(record) # {}

Malformed(record) == UnknownMnemonic(record) \/ MissingOperand(record)

HasMalformed == \E i \in DOMAIN program : Malformed(program[i])

\* C7: when some record is malformed (unknown mnemonic or missing operand) the
\* assembly never completes and nothing is written to the output file, not even the
\* encodings of the well-formed records before the malformed one.
C7_NoPartialBinary ==
    HasMalformed =>
        /\ pc # "done"
        /\ output_file = NoFile
        /\ binary_data = <<>>

\* an assembly failed at an unknown mnemonic that follows two well-formed records
C7_Witness ==
    /\ pc = "failed"
    /\ Len(program) = 3
    /\ ~Malformed(program[1])
    /\ ~Malformed(program[2])
    /\ UnknownMnemonic(program[3])
    /\ error.raised_at = 3
    /\ output_file = NoFile

\* the strings an exception carries
Names(err) == Range(err.args)

\* C6: when a record's mnemonic is unknown, the assembly fails with an error that
\* identifies the record's position and its mnemonic.
C6_UnrecognizedInstructionError ==
    (pc = "failed" /\ UnknownMnemonic(program[error.raised_at])) =>
        /\ program[error.raised_at].type \in Names(error)
        /\ \/ ToString(error.raised_at) \in Names(error)
           \/ ToString(error.raised_at - 1) \in Names(error)

\* the first record of the program that lacks an operand of its mnemonic
FirstMissingOperand ==
    CHOOSE i \in DOMAIN program :
        MissingOperand(program[i]) /\ \A j \in 1..(i - 1) : ~MissingOperand(program[j])

Parsed == pc # "loaded"

-----------------------------------------------------------------------------
(* The scenarios of test_specification and further properties of the bytes *)

EncodedLoadConst(constant, address) ==
    /\ EncodedAs({"load_const"})
    /\ EncodedRecord.constant = constant
    /\ EncodedRecord.address = address

\* the 32-bit word whose little-endian bytes are b
WordOf(b) == b[1] + 256 * b[2] + 65536 * b[3] + 16777216 * b[4]

\* C11 as stated: load_const{constant=693, address=81} encodes to the little-endian
\* bytes of the word 0x1445000B, and that word is 11 | (693<<6) | (81<<20).
C11_Word1445000B ==
    EncodedLoadConst(693, 81) =>
        /\ cmd_binary = Bytes(<<11, 0, 69, 20>>)
        /\ WordOf(cmd_binary.data) = 11 + 693 * 64 + 81 * 1048576

\* C11 amended: load_const{constant=693, address=81} encodes to the little-endian
\* bytes 4B AD 10 05 of the word 0x0510AD4B = 84979019, which is the value of
\* 11 | (693<<6) | (81<<20).
C11_Word0510AD4B ==
    EncodedLoadConst(693, 81) =>
        /\ cmd_binary = Bytes(<<75, 173, 16, 5>>)
        /\ WordOf(cmd_binary.data) = 84979019
        /\ WordOf(cmd_binary.data) = 11 + 693 * 64 + 81 * 1048576

\* the first test of test_specification: program [load_const 693 81], command 0 encoded
C11_Witness ==
    /\ EncodedLoadConst(693, 81)
    /\ Len(program) = 1
    /\ cmd_binary.ret = "bytes"
    /\ WordOf(cmd_binary.data) = 84979019

\* C12: read_mem{result_addr=94, source_addr=29} encodes to the bytes 0x18, 0xBC, 0x1D.
C12_ReadMemScenario ==
    (EncodedAs({"read_mem"}) /\ EncodedRecord.result_addr = 94
                             /\ EncodedRecord.source_addr = 29) =>
        cmd_binary = Bytes(<<24, 188, 29>>)

\* the second test of test_specification: program [read_mem 94 29], command 0 encoded
C12_Witness ==
    /\ EncodedAs({"read_mem"})
    /\ program = <<ReadMem(94, 29)>>
    /\ cmd_binary.data = <<24, 188, 29>>

\* the registry of section 4.1
RegistryTable(type) ==
    CASE type = "load_const" -> 11
      [] type = "read_mem" -> 24
      [] type = "abs" -> 7
      [] type = "write_mem" -> 30

\* C14: for every valid record parsed and then encoded, the low 6 bits of the first
\* byte are the registry opcode of its mnemonic, whatever the operands and whatever
\* else the input record holds.
C14_OpcodeFromRegistry ==
    EncodedAs(ValidMnemonics) =>
        /\ intermediate[cmd_index].fields.A = RegistryTable(EncodedRecord.type)
        /\ cmd_binary.data[1] % 64 = RegistryTable(EncodedRecord.type)

\* an abs record that carries a key A of its own was encoded with opcode 7
C14_Witness ==
    /\ EncodedAs({"abs"})
    /\ "A" \in DOMAIN EncodedRecord
    /\ EncodedRecord.A = 63
    /\ cmd_binary.data[1] = 7

\* C15: in every load_const encoding, bits 27 to 31 of the word are zero: the fourth
\* byte is less than 8, for operands in range or not.
C15_HighBitsZero ==
    EncodedAs({"load_const"}) =>
        /\ cmd_binary.ret = "bytes"
        /\ Len(cmd_binary.data) = 4
        /\ cmd_binary.data[4] < 8
        /\ WordOf(cmd_binary.data) \div 134217728 = 0

\* a load_const whose address has bit 7 set and all lower bits set was encoded
C15_Witness ==
    /\ EncodedLoadConst(16384, 255)
    /\ cmd_binary.data[4] = 7

\* C16: in every read_mem, abs and write_mem encoding the first byte is below 64 and
\* every byte is in 0..255, so packing never fails, for any operand values.
C16_ByteRanges ==
    /\ error.exc # "struct.error"
    /\ EncodedAs({"read_mem", "abs", "write_mem"}) =>
          /\ cmd_binary.ret = "bytes"
          /\ cmd_binary.data[1] < 64
          /\ \A i \in DOMAIN cmd_binary.data : cmd_binary.data[i] \in 0..255

\* a read_mem whose result_addr is wider than 7 bits was encoded
C16_Witness ==
    /\ EncodedAs({"read_mem"})
    /\ EncodedRecord.result_addr = 32768
    /\ EncodedRecord.source_addr = 32767
    /\ cmd_binary = Bytes(<<24, 1, 63>>)

-----------------------------------------------------------------------------
(* Properties of a session *)

\* the bytes sections 4.1 and 4.2 give for a well-formed record, from the record alone
ExpectedBytes(record) ==
    CASE record.type = "load_const" ->
            WordBytes(LoadConstWord(record.constant, record.address))
      [] record.type \in {"read_mem", "abs"} ->
            <<RegistryTable(record.type),
              (record.result_addr % 128) * 2 + ((record.source_addr \div 64) % 2),
              record.source_addr % 64>>
      [] record.type = "write_mem" ->
            <<30,
              (record.offset \div 256) % 64,
              record.offset % 256,
              (record.value_addr % 128) * 2 + ((record.base_addr \div 64) % 2),
              record.base_addr % 64>>

\* C13: the bytes encode_command returns depend only on the record: whatever runs
\* the assembler served before, a well-formed record encodes to the bytes its own
\* fields give, and the call changes neither the record nor the assembler.
C13_EncodingPure ==
    [][(pc' = "encoded" /\ pc # "encoded" /\ ~Malformed(program'[cmd_index'])) =>
          /\ cmd_binary' = Bytes(ExpectedBytes(program'[cmd_index']))
          /\ commands' = commands
          /\ program' = program
          /\ intermediate' = intermediate]_vars

\* abs{86, 26} was encoded by an assembler that had served two runs before
C13_Witness ==
    /\ runs = 2
    /\ pc = "encoded"
    /\ program = <<Abs(86, 26)>>
    /\ cmd_binary = Bytes(<<7, 172, 26>>)

RECURSIVE ExpectedBinary(_)
ExpectedBinary(prog) ==
    IF prog = <<>> THEN <<>>
    ELSE ExpectedBytes(Head(prog)) \o ExpectedBinary(Tail(prog))

\* the intermediate list of a program without a missing operand, from the program alone
ExpectedIntermediate(prog) ==
    [i \in DOMAIN prog |->
        [type |-> prog[i].type,
         fields |-> IF UnknownMnemonic(prog[i]) THEN EmptyDict
                    ELSE LET keys == OperandKeys(prog[i].type)
                             names == <<"B", "C", "D">>
                         IN [n \in {"A"} \cup {names[k] : k \in DOMAIN keys} |->
                                IF n = "A" THEN RegistryTable(prog[i].type)
                                ELSE prog[i][keys[CHOOSE k \in DOMAIN keys : names[k] = n]]]]]

\* C17: the diagnostic trace is a side channel: with --test or without, after
\* print_intermediate or not, the parsed list is the one the program alone
\* determines, and assemble_to_binary returns and writes the bytes the program alone
\* determines.
C17_TraceIsSideChannel ==
    /\ pc \in {"parsed", "printed", "encoded", "done"} =>
          intermediate = ExpectedIntermediate(program)
    /\ pc = "done" =>
          /\ binary_data = ExpectedBinary(program)
          /\ output_file = [exists |-> TRUE, data |-> binary_data]

\* the test program was assembled with --test: the trace holds the 22 lines of the
\* parsed fields and the 4 lines of the commands' bytes, the binary its 15 bytes
C17_Witness ==
    /\ pc = "done"
    /\ test_mode
    /\ program = TestProgram
    /\ Len(trace) = 26
    /\ trace[1] = [line |-> "header"]
    /\ trace[26] = [line |-> "bytes", type |-> "abs", data |-> <<7, 172, 26>>]
    /\ binary_data = <<75, 173, 16, 5, 24, 188, 29, 30, 0, 77, 11, 21, 7, 172, 26>>

\* C18: the registry is the table load_const 11, read_mem 24, write_mem 30, abs 7
\* after any sequence of parse_program, print_intermediate, encode_command and
\* assemble_to_binary calls, failed ones included.
C18_RegistryUnchanged ==
    /\ DOMAIN commands = ValidMnemonics
    /\ \A m \in ValidMnemonics : commands[m] = RegistryTable(m)

\* a third run on the same assembler failed on an unknown mnemonic
C18_Witness ==
    /\ runs = 2
    /\ pc = "failed"
    /\ error.exc = "TypeError"
    /\ UnknownMnemonic(program[error.raised_at])
    /\ commands = InitCommands

-----------------------------------------------------------------------------
(* Properties of bfs_build_dependency_graph *)

\* the traversal is over: the outermost call has returned
Finished == stack = <<>>

\* the name has the non-empty --filter value as a substring
NameContainsFilter(package_name) ==
    /\ config.filter # <<>>
    /\ \E i \in 1..Len(package_name) : \E j \in i..Len(package_name) :
           SubSeq(package_name, i, j) = config.filter

\* C19: after bfs_build_dependency_graph completes with a non-empty filter, no
\* package whose name contains the filter appears in dependency_graph, neither as
\* a key nor inside any dependency list
C19_NoFilteredPackage ==
    (Finished /\ config.filter # <<>>) =>
        \A package \in DOMAIN dependency_graph :
            /\ ~NameContainsFilter(package)
            /\ \A dep \in Range(dependency_graph[package]) : ~NameContainsFilter(dep)

\* what holds of the code for C19: the filtered names are in no dependency list,
\* and the only key that can carry one is the start package
C19_OnlyStartPackageUnfiltered ==
    (Finished /\ config.filter # <<>>) =>
        \A package \in DOMAIN dependency_graph :
            /\ NameContainsFilter(package) => package = config.package
            /\ \A dep \in Range(dependency_graph[package]) : ~NameContainsFilter(dep)

\* C20: bfs_build_dependency_graph terminates on every finite repository, also one
\* with dependency cycles and self-dependencies, and fetches the dependencies of
\* each package at most once per traversal
C20_TerminatesExpandingOnce ==
    /\ [](\A i \in DOMAIN fetched : \A j \in DOMAIN fetched :
              fetched[i] = fetched[j] => i = j)
    /\ <>Finished

\* the traversal of a -> ab, ab and ab -> a is over: the cycle was detected and
\* the second call on ab found it visited
C20_Witness ==
    /\ Finished
    /\ cycle_detected
    /\ repository = SetItem(SetItem(EmptyDict, <<"a">>, <<<<"a", "b">>, <<"a", "b">>>>),
                            <<"a", "b">>, <<<<"a">>>>)
    /\ fetched = <<<<"a">>, <<"a", "b">>>>
    /\ reverse_dependency_graph[<<"a", "b">>] = <<<<"a">>, <<"a">>>>

-----------------------------------------------------------------------------
(* Properties of find_reverse_dependencies *)

\* the packages with an edge of dependency_graph into the set S
Predecessors(S) ==
    {p \in DOMAIN dependency_graph : Range(dependency_graph[p]) \cap S # {}}

RECURSIVE Closure(_)
Closure(S) ==
    LET T == S \cup Predecessors(S) IN IF T = S THEN S ELSE Closure(T)

\* the packages from which target is reachable through one or more edges
Ancestors(target) == Closure(Predecessors({target}))

\* C21: find_reverse_dependencies(target) terminates on any reverse graph and
\* returns a list whose elements are exactly the packages, target itself left
\* out, from which target is reachable through one or more edges of the built
\* dependency graph
C21_ReverseDependencies ==
    /\ [](frd_at = "returned" =>
              Range(reverse_deps) = Ancestors(target_package) \ {target_package})
    /\ (frd_at = "loop") ~> (frd_at = "returned")

\* the search from a package on a cycle has returned two-step dependents
C21_Witness ==
    /\ frd_at = "returned"
    /\ cycle_detected
    /\ target_package \in Ancestors(target_package)
    /\ \E p \in Range(reverse_deps) : target_package \notin Range(dependency_graph[p])

-----------------------------------------------------------------------------
(* Properties of the configuration translator *)

\* the declared value of a constant of the input text
DeclaredValue(name) ==
    declarations[CHOOSE i \in DOMAIN declarations : declarations[i].name = name].value

AtomValue(atom) == IF atom.kind = "literal" THEN atom.n ELSE DeclaredValue(atom.name)

RECURSIVE Product(_)
Product(arg) == IF arg = <<>> THEN 1 ELSE AtomValue(arg[1]) * Product(Tail(arg))

\* the least of the values of the arguments
Minimum ==
    CHOOSE v \in {Product(arguments[i]) : i \in DOMAIN arguments} :
        \A i \in DOMAIN arguments : v <= Product(arguments[i])

\* a declared constant's name occurs inside the word min
NameInsideMin ==
    \E i \in DOMAIN declarations : \E j \in 1..3 : \E k \in j..3 :
        SubSeq(<<"m", "i", "n">>, j, k) = declarations[i].name

\* C22: an assignment name = !{min(e1, ..., en)} whose arguments are integer
\* literals, declared integer constants or products of them evaluates to the
\* minimum of the arguments' values, for every choice of valid constant names
C22_MinOfArguments ==
    hw_at = "translated" =>
        /\ AssignedName \in DOMAIN output
        /\ output[AssignedName].kind = "int"
        /\ output[AssignedName].value = Minimum

\* what holds of the code for C22: the minimum is assigned whenever no declared
\* name occurs inside the word min
C22_MinUnlessNameInsideMin ==
    (hw_at = "translated" /\ ~NameInsideMin) =>
        /\ AssignedName \in DOMAIN output
        /\ output[AssignedName].kind = "int"
        /\ output[AssignedName].value = Minimum

-----------------------------------------------------------------------------
(* Order of failures in the assembler *)

\* the malformed record with the smallest index
FirstMalformed ==
    CHOOSE i \in DOMAIN program :
        Malformed(program[i]) /\ \A j \in 1..(i - 1) : ~Malformed(program[j])

\* C23: when several records of one input sequence are malformed (any mix of
\* unknown mnemonics and missing operands), the assembly fails at the earliest
\* malformed record in input order: the error raised concerns the malformed record
\* with the smallest index
C23_FailsAtEarliestMalformed ==
    pc = "failed" => error.raised_at = FirstMalformed

-----------------------------------------------------------------------------
(* Properties of the traversal's flag, depth counter and graphs *)

\* the packages the repository names
RepositoryPackages ==
    DOMAIN repository \cup UNION {Range(repository[p]) : p \in DOMAIN repository}

\* the packages with an edge of the repository from the set S
Successors(S) == UNION {Range(repository[p]) : p \in S \cap DOMAIN repository}

RECURSIVE Reach(_)
Reach(S) == LET T == S \cup Successors(S) IN IF T = S THEN S ELSE Reach(T)

\* some package reachable from the start package reaches itself through one or
\* more dependencies
CycleReachable ==
    \E p \in Reach({config.package}) : p \in Reach(Successors({p}))

\* C24: for a repository of at most 20 packages and an empty filter, after the
\* top-level bfs_build_dependency_graph(start) returns, cycle_detected is true if
\* and only if some dependency cycle (a self-dependency included) is reachable from
\* start; a package reached twice through different acyclic paths never sets it
C24_CycleDetectedIffCycle ==
    (Finished /\ config.filter = <<>> /\ Cardinality(RepositoryPackages) <= 20) =>
        (cycle_detected <=> CycleReachable)

\* the traversal of the ring of 20 packages is over: the cycle was met at depth 20
C24_WitnessRing ==
    /\ Finished
    /\ repository = RingRepository
    /\ config.filter = <<>>
    /\ cycle_detected
    /\ Len(fetched) = max_recursion_depth

\* the traversal from a met a cycle between ab and b that does not pass through a
C24_Witness ==
    /\ Finished
    /\ config = [package |-> <<"a">>, filter |-> <<>>]
    /\ cycle_detected
    /\ <<"a">> \notin Reach(Successors({<<"a">>}))
    /\ fetched = <<<<"a">>, <<"a", "b">>, <<"b">>>>

\* the traversal of the diamond a -> ab, b and ab -> b is over and the flag is down
C24_WitnessDiamond ==
    /\ Finished
    /\ config.filter = <<>>
    /\ ~cycle_detected
    /\ <<"b">> \in DOMAIN reverse_dependency_graph
    /\ Len(reverse_dependency_graph[<<"b">>]) = 2
    /\ fetched = <<<<"a">>, <<"a", "b">>, <<"b">>>>

\* C25: recursion_depth is never negative, a package is marked visited and given
\* an entry in dependency_graph only while recursion_depth is at most
\* max_recursion_depth (20), and recursion_depth is back to 0 when the top-level
\* call has returned, whichever early returns (cycle, depth limit, already
\* visited) were taken
C25_DepthAccounting ==
    /\ [](recursion_depth >= 0 /\ (Finished => recursion_depth = 0))
    /\ [][(visited_packages' # visited_packages
           \/ DOMAIN dependency_graph' # DOMAIN dependency_graph)
          => /\ recursion_depth' = recursion_depth + 1
             /\ recursion_depth' <= max_recursion_depth]_vars

\* the traversal of the chain is over: 20 packages were expanded, the call on the
\* 21st returned at the depth limit, and the depth is 0 again
C25_Witness ==
    /\ Finished
    /\ repository = ChainRepository
    /\ Len(fetched) = max_recursion_depth
    /\ ChainPackage(max_recursion_depth + 1) \notin visited_packages
    /\ recursion_depth = 0

-----------------------------------------------------------------------------
(* Properties of run_script *)

\* line i of the script without the blanks around it
Stripped(i) == Strip(lines[i])

\* line i is neither empty nor a comment
Executable(i) == Stripped(i) # <<>> /\ Stripped(i)[1] # "#"

\* line i has a quote left open: it fails to parse
Unparsable(i) ==
    Executable(i) /\ Cardinality({k \in DOMAIN Stripped(i) : Stripped(i)[k] = "\""}) % 2 = 1

\* the command of line i: the text before its first blank
CommandWord(i) ==
    LET line   == Stripped(i)
        blanks == {k \in DOMAIN line : line[k] = " "}
    IN  IF blanks = {} THEN line
        ELSE SubSeq(line, 1, (CHOOSE k \in blanks : \A m \in blanks : k <= m) - 1)

\* the first argument of line i, one word with its quotes taken off
ArgumentWord(i) ==
    SelectSeq(SubSeq(Stripped(i), Len(CommandWord(i)) + 2, Len(Stripped(i))),
              LAMBDA c : c # "\"")

HasArgument(i) == Len(Stripped(i)) > Len(CommandWord(i))

\* line i fails: it does not parse, its command is unknown, or it is cd alone
LineFails(i) ==
    /\ Executable(i)
    /\ \/ Unparsable(i)
       \/ CommandWord(i) \notin ReturningCommands \cup {ExitCommand}
       \/ CommandWord(i) = <<"c", "d">> /\ ~HasArgument(i)

\* line i is the command exit
LineExits(i) == Executable(i) /\ ~Unparsable(i) /\ CommandWord(i) = ExitCommand

\* the first line of the set, or the length of the script plus one
FirstOf(S) == IF S = {} THEN Len(lines) + 1 ELSE CHOOSE i \in S : \A j \in S : i <= j

FirstFailure == FirstOf({i \in DOMAIN lines : LineFails(i)})

FirstFailureOrExit == FirstOf({i \in DOMAIN lines : LineFails(i) \/ LineExits(i)})

\* the lines up to line n that are handed to execute_command, in file order
ExecutedUpTo(n) ==
    SelectSeq([i \in DOMAIN lines |-> i],
              LAMBDA i : i <= n /\ Executable(i) /\ ~Unparsable(i))

\* the directory after the cd lines with an argument among the first n lines
RECURSIVE DirectoryAfter(_)
DirectoryAfter(n) ==
    IF n = 0 THEN <<"/">>
    ELSE LET before == DirectoryAfter(n - 1)
             arg    == ArgumentWord(n)
         IN  IF Executable(n) /\ ~Unparsable(n) /\ CommandWord(n) = <<"c", "d">>
                /\ HasArgument(n)
             THEN (IF arg # <<>> /\ arg[1] = "/" THEN arg
                   ELSE IF before[Len(before)] = "/" THEN before \o arg
                   ELSE before \o <<"/">> \o arg)
             ELSE before

\* the run stops at line stop, or runs to the end when stop is past the last line
StopsAt(stop) ==
    /\ executed = ExecutedUpTo(line_num)
    /\ current_dir = DirectoryAfter(line_num)
    /\ result = "none" => line_num < stop
    /\ result # "none" =>
           LET last == IF stop <= Len(lines) THEN stop ELSE Len(lines)
           IN  /\ line_num <= last
               /\ executed = ExecutedUpTo(last)
               /\ current_dir = DirectoryAfter(last)

\* C26 as stated: run_script executes the script's non-empty, non-comment lines in
\* file order and stops at the first line that fails to parse or whose command
\* returns a false result; it then returns False and no later line is executed or
\* affects current_dir; it returns True only if every executed command succeeded
C26_StopsAtFirstFailure ==
    script_exists =>
        /\ StopsAt(FirstFailure)
        /\ (result # "none" /\ FirstFailure <= Len(lines)) => result = "False"
        /\ result = "True" => FirstFailure > Len(lines)

\* C26 amended: the run also stops at a line exit, whose sys.exit(0) ends the
\* process before run_script returns; otherwise as stated
C26_StopsAtFirstFailureOrExit ==
    script_exists =>
        /\ StopsAt(FirstFailureOrExit)
        /\ result # "none" =>
               result = (IF FirstFailureOrExit > Len(lines) THEN "True"
                         ELSE IF LineExits(FirstFailureOrExit) THEN "exit"
                         ELSE "False")

\* the script cd /a, foo, cd b has returned False at its second line: both lines
\* were executed, the third was not, and current_dir is /a
C26_Witness ==
    /\ result = "False"
    /\ lines = <<<<"c", "d", " ", "/", "a">>, <<"f", "o", "o">>, <<"c", "d", " ", "b">>>>
    /\ executed = <<1, 2>>
    /\ current_dir = <<"/", "a">>

-----------------------------------------------------------------------------
(* C27: parse_program keeps every record *)

\* parse_program has returned a list
ParseReturned ==
    \/ pc \in {"parsed", "printed", "encoded", "done"}
    \/ pc = "failed" /\ error.exc # "KeyError"

\* C27: the list parse_program returns has the length of the input and entry i
\* carries record i's type; a record with an unknown mnemonic gets an empty field
\* map and is never what parse_program fails on; encode_command on such an entry
\* returns None and does not raise
C27_ParseKeepsEveryRecord ==
    /\ ParseReturned =>
          /\ Len(intermediate) = Len(program)
          /\ \A i \in DOMAIN program :
                /\ intermediate[i].type = program[i].type
                /\ UnknownMnemonic(program[i]) => intermediate[i].fields = EmptyDict
    /\ (pc = "failed" /\ error.exc = "KeyError") =>
          ~UnknownMnemonic(program[error.raised_at])
    /\ (cmd_index # 0 /\ UnknownMnemonic(intermediate[cmd_index])) =>
          /\ pc = "encoded"
          /\ cmd_binary = None
          /\ error = NoError

\* a program with jmp as its second record was parsed, and encode_command was
\* called on the jmp entry
C27_Witness ==
    /\ pc = "encoded"
    /\ Len(program) = 3
    /\ program[1].type = "load_const"
    /\ program[2].type = "jmp"
    /\ program[3].type = "abs"
    /\ cmd_index = 2
    /\ cmd_binary = None

-----------------------------------------------------------------------------
(* C28: the byte stream decodes in one way only *)

\* a record reduced to its mnemonic and its operands
Instruction(record) == [key \in {"type"} \cup OperandsOf(record) |-> record[key]]

Instructions(prog) == [i \in DOMAIN prog |-> Instruction(prog[i])]

ValidInWidth(record) ==
    /\ ~UnknownMnemonic(record)
    /\ AbsentFields(record) = {}
    /\ WithinWidths(record)

\* the length the low 6 bits of an instruction's first byte stand for
LengthOfFirstByte(byte) ==
    LET type == CHOOSE m \in ValidMnemonics : InitCommands[m] = BitAnd(byte, 63)
    IN  ByteLength(type)

\* the reader of the stream: the low 6 bits of the first byte give the mnemonic
\* and the length, the inverse formulas give the operands
RECURSIVE Disassemble(_)
Disassemble(bytes) ==
    IF bytes = <<>> THEN <<>>
    ELSE LET type    == CHOOSE m \in ValidMnemonics : InitCommands[m] = BitAnd(bytes[1], 63)
             n       == ByteLength(type)
             decoded == Decode(type, SubSeq(bytes, 1, n))
         IN  <<[key \in {"type"} \cup Range(OperandKeys(type)) |-> decoded[key]]>>
                 \o Disassemble(SubSeq(bytes, n + 1, Len(bytes)))

\* the programs of valid records within their widths, with what each assembles to
InWidthPrograms ==
    UNION {[1..n -> {r \in PoolRecords : ValidInWidth(r)}] : n \in 0..MaxLen}

Assembled ==
    {<<Instructions(q),
       assemble_to_binary(parse_program(InitCommands, q).intermediate).data>> :
         q \in InWidthPrograms}

\* C28: when every record of the program is valid and within its widths, the
\* binary determines the program: the low 6 bits of each instruction's first byte
\* give its length, reading the stream back gives the records (mnemonics and
\* operand values) in order, and no other such program assembles to the same bytes
C28_UniquelyDecodable ==
    (pc = "done" /\ \A i \in DOMAIN program : ValidInWidth(program[i])) =>
        /\ \A i \in DOMAIN program :
              LengthOfFirstByte(binary_data[LengthUpTo(i - 1) + 1]) = Len(EncodingOf(i))
        /\ Disassemble(binary_data) = Instructions(program)
        /\ \A other \in Assembled :
              other[2] = binary_data => other[1] = Instructions(program)

\* a program of a five-byte, a three-byte and a four-byte instruction was
\* assembled and its twelve bytes read back
C28_Witness ==
    /\ pc = "done"
    /\ program = <<WriteMem(16383, 127, 127), Abs(86, 26), LoadConst(693, 81)>>
    /\ Len(binary_data) = 12
    /\ Disassemble(binary_data) = program

-----------------------------------------------------------------------------
(* C29: the two graphs agree *)

\* package is listed under key in the graph
ListedIn(graph, key, package) == key \in DOMAIN graph /\ package \in Range(graph[key])

\* every package that is a key or is listed in one of the two graphs
GraphPackages ==
    DOMAIN dependency_graph \cup DOMAIN reverse_dependency_graph
    \cup UNION {Range(dependency_graph[p]) : p \in DOMAIN dependency_graph}
    \cup UNION {Range(reverse_dependency_graph[d]) : d \in DOMAIN reverse_dependency_graph}

\* C29: when the top-level bfs_build_dependency_graph has returned on a fresh
\* visualizer, p is listed in reverse_dependency_graph[d] if and only if d is
\* listed in dependency_graph[p], and the keys of dependency_graph are exactly
\* visited_packages
C29_GraphsConsistent ==
    Finished =>
        /\ \A p \in GraphPackages : \A d \in GraphPackages :
              ListedIn(reverse_dependency_graph, d, p) <=> ListedIn(dependency_graph, p, d)
        /\ DOMAIN dependency_graph = visited_packages

\* a traversal has returned in which package a depends on two packages and
\* package b has two dependents
C29_Witness ==
    /\ Finished
    /\ ListedIn(dependency_graph, <<"a">>, <<"a", "b">>)
    /\ ListedIn(dependency_graph, <<"a">>, <<"b">>)
    /\ ListedIn(reverse_dependency_graph, <<"b">>, <<"a">>)
    /\ ListedIn(reverse_dependency_graph, <<"b">>, <<"a", "b">>)
    /\ visited_packages = Packages

====
